---- MODULE Spec2Model ----
(***************************************************************************)
(* Model of the PiCar-X feedback loop:                                     *)
(*   - RuleEngine (src/src/decision/rule_engine.py): the prioritised rule  *)
(*     list, its mutators and evaluate();                                  *)
(*   - FeedbackLoop (src/src/core/feedback_loop.py) driving                *)
(*     RobotController (src/src/actions/robot_controller.py).              *)
(* SpecRules is the state machine of one RuleEngine instance, SpecLoop the  *)
(* one of a FeedbackLoop with its controller, SpecRobot the one of a       *)
(* RobotController under arbitrary calls and a clock.                      *)
(***************************************************************************)
EXTENDS Integers, Sequences, FiniteSets, TLC

\* ------------------------------------------------------------------------
\* Bounds
\* ------------------------------------------------------------------------
\* longest rule list add_rule is allowed to build
MaxRules == 2
\* last clock value (half-second ticks) the loop is followed to
MaxTime == 4
\* longest time (ticks) one decide call is followed for
MaxDecide == 1
\* last clock value (half-second ticks) the controller is followed to
MaxClock == 12

\* ------------------------------------------------------------------------
\* RuleEngine: values
\* ------------------------------------------------------------------------
\* Rule names used by the constructor table and by the mutators.
RuleNames == {"avoid_obstacle", "explore"}

\* Facts of a context.  Python booleans are the integers 0 and 1
\* (True == 1), so voice_detected is modelled by 0/1.
Facts == {"obstacle_distance", "voice_detected"}

FactValues(f) == IF f = "obstacle_distance" THEN {10, 20, 30} ELSE {0, 1}

\* A context is a dict: a function whose domain is the set of facts present.
Contexts ==
  UNION {{c \in [D -> 0..30] : \A f \in D : c[f] \in FactValues(f)} : D \in SUBSET Facts}

\* condition_value: a 2-tuple (op_str, threshold), or a direct value.
Tuple2(o, t) == [is_tuple |-> TRUE, op_str |-> o, threshold |-> t]
Direct(v) == [is_tuple |-> FALSE, op_str |-> "", threshold |-> v]

\* self.operators (the six comparison operators)
operators == {">", "<", ">=", "<=", "==", "!="}

\* Arguments add_rule and the constructor table draw from: every predicate
\* form, a two-key AND, an empty condition dict, an unknown operator, and
\* equal priorities.
RuleChoices ==
  { [priority |-> 3,
     conditions |-> [f \in {"obstacle_distance"} |-> Tuple2("<", 20)],
     actions |-> <<"stop", "turn_random">>],
    [priority |-> 3,
     conditions |-> [f \in {"voice_detected"} |-> Direct(1)],
     actions |-> <<"parse_command">>],
    [priority |-> 2,
     conditions |-> [f \in Facts |-> IF f = "obstacle_distance"
                                      THEN Tuple2(">", 20) ELSE Tuple2("!=", 1)],
     actions |-> <<"move_forward">>],
    [priority |-> 2,
     conditions |-> [f \in {"obstacle_distance"} |-> Tuple2(">=", 20)],
     actions |-> <<"move_forward_slow">>],
    [priority |-> 1,
     conditions |-> [f \in Facts |-> IF f = "obstacle_distance"
                                      THEN Tuple2("<=", 20) ELSE Tuple2("==", 1)],
     actions |-> <<"move_backward">>],
    [priority |-> 1,
     conditions |-> [f \in {} |-> Direct(0)],
     actions |-> <<"scan_environment">>],
    [priority |-> 2,
     conditions |-> [f \in {"voice_detected"} |-> Tuple2("~", 1)],
     actions |-> <<"take_photo">>] }

\* BEHAVIOR_RULES, in dict order.  Priorities are in twentieths (0.9 is 18),
\* times in half-second ticks (5.0 seconds is 10), True is 1.
BEHAVIOR_RULES ==
  << [name |-> "follow_face", enabled |-> TRUE,
      data |-> [priority |-> 18,
                conditions |-> [f \in {"face_detected"} |-> Direct(1)],
                actions |-> <<"track_face", "move_forward_slow">>]],
     [name |-> "approach_color", enabled |-> TRUE,
      data |-> [priority |-> 16,
                conditions |-> [f \in {"color_detected", "color_size"} |->
                                  IF f = "color_detected" THEN Direct(1)
                                  ELSE Tuple2(">", 100)],
                actions |-> <<"track_color", "move_forward">>]],
     [name |-> "avoid_obstacle", enabled |-> TRUE,
      data |-> [priority |-> 20,
                conditions |-> [f \in {"obstacle_distance"} |-> Tuple2("<", 20)],
                actions |-> <<"stop", "turn_random", "move_forward">>]],
     [name |-> "voice_command", enabled |-> TRUE,
      data |-> [priority |-> 19,
                conditions |-> [f \in {"voice_detected"} |-> Direct(1)],
                actions |-> <<"parse_command", "execute_command">>]],
     [name |-> "explore", enabled |-> TRUE,
      data |-> [priority |-> 6,
                conditions |-> [f \in {"idle_time"} |-> Tuple2(">", 10)],
                actions |-> <<"scan_environment", "move_forward", "turn_random">>]] >>

\* dataclass Rule
Rule(n, e, p, c, a) ==
  [name |-> n, enabled |-> e, priority |-> p, conditions |-> c, actions |-> a]

VARIABLES
  rules,        \* RuleEngine.rules: list of Rule
  evaluated,    \* TRUE when the last call on the engine was evaluate()
  eval_ctx,     \* the context passed to that evaluate()
  eval_result,  \* the list it returned
  trail         \* the mutator calls just made: an add_rule(name) and the list
                \* it was applied to, then a remove_rule(name) right after it

VARIABLES
  inserted,         \* for each priority, the rules of that priority that are in
                    \* the list, in the order they were inserted
  rule_log,         \* SpecRuleCalls: the last mutator call: its name argument,
                    \* whether a rule of that name was in the list, whether the
                    \* list is as it was, and the level of the record it logged
  disabled_by_call  \* SpecRuleCalls: the names enable_rule(name, False) found
                    \* and switched off and neither enable_rule(name, True) nor
                    \* remove_rule took back

call_vars == <<rule_log, disabled_by_call>>

rule_vars == <<rules, evaluated, eval_ctx, eval_result, trail, inserted, call_vars>>

VARIABLES
  pc,             \* where the thread that called start() is
  is_running,     \* FeedbackLoop.is_running
  mode,           \* FeedbackLoop.mode
  loop_count,     \* FeedbackLoop.loop_count
  avg_loop_time,  \* FeedbackLoop.avg_loop_time, an exact fraction [num, den]
  loop_start,     \* loop_start of the cycle in flight
  actions,        \* the tokens of the decision that _act has still to run
  actions_is_none,\* the decision engine returned None instead of a list
  robot,          \* the RobotController's fields
  vision_running, \* VisionSensor.is_running
  audio_running,  \* AudioSensor.is_running
  now,            \* time.time(), in half-second ticks
  exiting,        \* sys.exit(0) of the signal handler is unwinding start()
  motion_began,   \* SpecRobot: when the robot last went from standing to moving
  safety_verdict, \* what check_safety returned in the cycle in flight
  stop_called,    \* stop() has run since the last start()
  init_failed,    \* the last start() returned because initialize() failed
  recovered,      \* the previous cycle of this run ended in the except branch
  start_result,   \* what the last start() returned ("" while it has not)
  phases_done,    \* the phases the cycle in flight has entered, in order
  run_durations,  \* loop_time of every cycle of this run that reached the metrics
  llm_fault       \* the fault the reasoner hit in the decide call just made

\* what the loop's history variables are
cycle_log == <<start_result, phases_done, run_durations, llm_fault>>

loop_vars == <<pc, is_running, mode, loop_count, avg_loop_time, loop_start, actions,
               actions_is_none, robot, vision_running, audio_running, now, exiting,
               motion_began, safety_verdict, stop_called, init_failed, recovered,
               cycle_log>>

VARIABLES
  last_activity_time, \* ContextBuilder.last_activity_time (NoTime for None)
  built_context,      \* the context the last build_context call returned
  context_at,         \* when that call was made (NoTime before the first)
  stimulus_at         \* when a call last saw a face, a colour or a voice

context_vars == <<last_activity_time, built_context, context_at, stimulus_at>>

VARIABLES
  scan,      \* the list iterator of an evaluate() call in flight
  mutation   \* the one mutator call made next to it, and how far it has got

scan_vars == <<scan, mutation>>

VARIABLES
  audio,            \* AudioSensor: is_running, is_listening, last_transcription
  voice_pc,         \* SpecVoice: where the thread that calls start() is
  voice_running,    \* SpecVoice: FeedbackLoop.is_running
  perception_audio, \* perception['audio'] of the cycle in flight
  voice_actions,    \* the tokens _act has still to run in that cycle
  voice_log         \* what was called, read, used and published so far

voice_vars == <<audio, voice_pc, voice_running, perception_audio, voice_actions, voice_log>>

VARIABLES
  voice_text,     \* SpecLexicon: the transcription, a list of characters, or None
  parsed_command  \* SpecLexicon: what _parse_voice_command returned for it

lexicon_vars == <<voice_text, parsed_command>>

VARIABLES
  loops,        \* SpecProcess: the FeedbackLoop instances of the process
  handler,      \* SpecProcess: the instance whose _signal_handler is installed
  main_at,      \* SpecProcess: where the main thread is
  active,       \* SpecProcess: the instance whose start() the main thread is in
  interrupted   \* SpecProcess: the instance that was running when the signal came

process_vars == <<loops, handler, main_at, active, interrupted>>

VARIABLES
  act_log       \* SpecAct: the list _decide returned and what _act did with each token

act_vars == <<act_log>>

VARIABLES
  decide_call   \* SpecFacts: the last _decide call: its inputs, the context, the actions

facts_vars == <<decide_call>>

VARIABLES
  explained     \* SpecExplain: the last explain_decision call and the rule list it saw

explain_vars == <<explained>>

\* the side variables the act phase leaves alone
act_idle_vars ==
  <<context_vars, scan_vars, voice_vars, lexicon_vars, process_vars, facts_vars,
    explain_vars>>

\* the variables the rule engine, the loop and the controller leave alone
side_vars == <<context_vars, scan_vars, voice_vars, lexicon_vars, process_vars, act_vars, facts_vars, explain_vars>>

vars == <<last_activity_time, built_context, context_at, stimulus_at, scan, mutation,
          audio, voice_pc, voice_running, perception_audio, voice_actions, voice_log,
          voice_text, parsed_command,
          loops, handler, main_at, active, interrupted, act_log,
          decide_call, explained,
          rules, evaluated, eval_ctx, eval_result, trail,
          inserted, rule_log, disabled_by_call,
          pc, is_running, mode, loop_count, avg_loop_time, loop_start, actions,
          actions_is_none, robot, vision_running, audio_running, now, exiting,
          motion_began, safety_verdict, stop_called, init_failed, recovered,
          start_result, phases_done, run_durations, llm_fault>>

\* ------------------------------------------------------------------------
\* RuleEngine: functions
\* ------------------------------------------------------------------------
\* A plausible slip: the sort puts a rule in front of the rules of its own
\* priority.
InsertByPriority_before_equals(s, r) ==
  LET k == Cardinality({i \in 1..Len(s) : s[i].priority > r.priority})
  IN SubSeq(s, 1, k) \o <<r>> \o SubSeq(s, k + 1, Len(s))

\* list.sort(key=lambda r: r.priority, reverse=True): a stable sort, rules of
\* equal priority keep their relative order.
InsertByPriority(s, r) ==
  LET k == Cardinality({i \in 1..Len(s) : s[i].priority >= r.priority})
  IN SubSeq(s, 1, k) \o <<r>> \o SubSeq(s, k + 1, Len(s))

RECURSIVE sort_by_priority(_)
sort_by_priority(s) ==
  IF s = <<>> THEN <<>>
  ELSE InsertByPriority(sort_by_priority(SubSeq(s, 1, Len(s) - 1)), s[Len(s)])

\* _parse_rules: one Rule per dict item, in dict order, then sorted.
\* table is the dict as a sequence of [name, rule_data] items.
parse_rules(table) ==
  sort_by_priority([i \in 1..Len(table) |->
     Rule(table[i].name, table[i].enabled, table[i].data.priority,
          table[i].data.conditions, table[i].data.actions)])

evaluate_single_condition(condition_value, context_value) ==
  IF condition_value.is_tuple
  THEN IF condition_value.op_str \in operators
       THEN CASE condition_value.op_str = ">" -> context_value > condition_value.threshold
              [] condition_value.op_str = "<" -> context_value < condition_value.threshold
              [] condition_value.op_str = ">=" -> context_value >= condition_value.threshold
              [] condition_value.op_str = "<=" -> context_value <= condition_value.threshold
              [] condition_value.op_str = "==" -> context_value = condition_value.threshold
              [] condition_value.op_str = "!=" -> context_value # condition_value.threshold
       ELSE FALSE
  ELSE context_value = condition_value.threshold

\* A plausible slip: a missing fact is compared as None instead of failing
\* the rule (None != threshold is True in Python, None == threshold False).
evaluate_conditions_none_compared(conditions, context) ==
  \A key \in DOMAIN conditions :
     IF key \notin DOMAIN context
     THEN conditions[key].is_tuple /\ conditions[key].op_str = "!="
     ELSE evaluate_single_condition(conditions[key], context[key])

\* _evaluate_conditions: context.get(key) is None -> False; every condition
\* must hold.
evaluate_conditions(conditions, context) ==
  \A key \in DOMAIN conditions :
     IF key \notin DOMAIN context
     THEN FALSE
     ELSE evaluate_single_condition(conditions[key], context[key])

RECURSIVE evaluate_from(_, _, _)
evaluate_from(rs, context, i) ==
  IF i > Len(rs) THEN <<>>
  ELSE IF ~rs[i].enabled THEN evaluate_from(rs, context, i + 1)
  ELSE IF evaluate_conditions(rs[i].conditions, context) THEN rs[i].actions
  ELSE evaluate_from(rs, context, i + 1)

RECURSIVE evaluate_all_from(_, _, _)
evaluate_all_from(rs, context, i) ==
  IF i > Len(rs) THEN <<>>
  ELSE IF evaluate_conditions(rs[i].conditions, context) THEN rs[i].actions
  ELSE evaluate_all_from(rs, context, i + 1)

\* A plausible slip: the enabled flag is not consulted.
evaluate_ignoring_enabled(rs, context) == evaluate_all_from(rs, context, 1)

\* evaluate: the actions of the first enabled rule, in list order, whose
\* conditions all hold; [] when there is none.
evaluate(rs, context) == evaluate_from(rs, context, 1)

\* explain_decision returned "Ninguna regla se cumple con el contexto actual"
NoRuleExplanation == [matched |-> FALSE]

\* the text explain_decision returns for a rule: its name, its priority, its
\* conditions and its actions
RuleExplanation(r) ==
  [matched |-> TRUE, name |-> r.name, priority |-> r.priority,
   conditions |-> r.conditions, actions |-> r.actions]

RECURSIVE explain_all_from(_, _, _)
explain_all_from(rs, context, i) ==
  IF i > Len(rs) THEN NoRuleExplanation
  ELSE IF evaluate_conditions(rs[i].conditions, context) THEN RuleExplanation(rs[i])
  ELSE explain_all_from(rs, context, i + 1)

\* A plausible slip: explain_decision lacks the `if not rule.enabled` test.
explain_decision_ignoring_enabled(rs, context) ==
  [rules |-> rs, explanation |-> explain_all_from(rs, context, 1)]

RECURSIVE explain_from(_, _, _)
explain_from(rs, context, i) ==
  IF i > Len(rs) THEN NoRuleExplanation
  ELSE IF ~rs[i].enabled THEN explain_from(rs, context, i + 1)
  ELSE IF evaluate_conditions(rs[i].conditions, context) THEN RuleExplanation(rs[i])
  ELSE explain_from(rs, context, i + 1)

\* explain_decision: the rule list after the call and the text returned
explain_decision(rs, context) ==
  [rules |-> rs, explanation |-> explain_from(rs, context, 1)]

\* A plausible slip: the rule is appended and the list is not re-sorted.
add_rule_unsorted(rs, name, priority, conditions, action_list) ==
  Append(rs, Rule(name, TRUE, priority, conditions, action_list))

\* add_rule: append an enabled Rule, then sort.
add_rule(rs, name, priority, conditions, action_list) ==
  sort_by_priority(Append(rs, Rule(name, TRUE, priority, conditions, action_list)))

\* remove_rule: keep the rules whose name differs.
remove_rule(rs, name) == SelectSeq(rs, LAMBDA r : r.name # name)

\* enable_rule: set the flag of the first rule of that name; no rule of that
\* name leaves the list as it is.
enable_rule(rs, name, enable) ==
  IF \E i \in 1..Len(rs) : rs[i].name = name
  THEN LET k == CHOOSE i \in 1..Len(rs) :
                  /\ rs[i].name = name
                  /\ \A j \in 1..(i - 1) : rs[j].name # name
       IN [rs EXCEPT ![k].enabled = enable]
  ELSE rs

\* The names of the rules of a list.
NamesOf(rs) == {rs[i].name : i \in 1..Len(rs)}

\* The priorities a rule can have.
Priorities ==
  {c.priority : c \in RuleChoices}
    \cup {BEHAVIOR_RULES[i].data.priority : i \in 1..Len(BEHAVIOR_RULES)}

\* A rule without its enabled flag.
Unflagged(r) ==
  [name |-> r.name, priority |-> r.priority, conditions |-> r.conditions,
   actions |-> r.actions]

\* The rules of priority p of a list, in list order, without their flags.
OfPriority(rs, p) ==
  LET same == SelectSeq(rs, LAMBDA r : r.priority = p)
  IN [i \in 1..Len(same) |-> Unflagged(same[i])]

\* The constructor's rules in dict order.
InTableOrder(table) ==
  [i \in 1..Len(table) |->
     Rule(table[i].name, table[i].enabled, table[i].data.priority,
          table[i].data.conditions, table[i].data.actions)]

\* add_rule logs "Regla añadida" with logger.info
add_rule_log(rs, name) == "info"

\* remove_rule logs "Regla eliminada" with logger.info, whatever the list held
remove_rule_log(rs, name) == "info"

\* enable_rule logs with logger.info from inside the loop when it finds the
\* name, and "Regla no encontrada" with logger.warning after it otherwise
enable_rule_log(rs, name) == IF name \in NamesOf(rs) THEN "info" ELSE "warning"

\* ------------------------------------------------------------------------
\* Settings (config/settings.py).  Times are in half-second ticks.
\* ------------------------------------------------------------------------
\* 1.0 / LOOP_FREQUENCY, LOOP_FREQUENCY = 1 Hz: one second
loop_period == 2
\* time.sleep(0.5) of the except branch of _run_loop
recovery_pause == 1
\* ROBOT_CONFIG['max_continuous_movement'] = 5.0 seconds
max_continuous_movement == 10
\* ROBOT_CONFIG['emergency_stop_distance'], cm
emergency_stop_distance == 10
\* ROBOT_CONFIG['default_speed'] and ['slow_speed']
default_speed == 30
slow_speed == 15

\* movement_start_time = None.  time.time() is never 0, so the truth test of
\* check_safety is the None test.
NoTime == -1

\* Values px.ultrasonic.read() returns: nothing in range, closer than the
\* emergency distance, exactly at it.
DistanceReadings == {0, 5, 10}

LoopModes == {"autonomous", "voice_control", "tracking", "exploration"}

\* Action lists a decision engine returns: the lists of the rule table, the
\* empty list, and a list with a token the executor does not know.
ActionLists ==
  { <<>>,
    <<"stop", "turn_random", "move_forward">>,
    <<"track_face", "move_forward_slow">>,
    <<"parse_command", "execute_command">>,
    <<"bogus", "move_backward">> }

\* Commands _parse_voice_command resolves an utterance to ("" for None).
VoiceCommands == {"", "forward", "stop", "follow_me", "explore"}

\* ------------------------------------------------------------------------
\* RobotController.  The px driver calls are taken to return normally; the
\* except branches of the controller only log.
\* ------------------------------------------------------------------------
\* __init__
NewRobot ==
  [is_initialized |-> FALSE, current_state |-> "stopped", current_speed |-> 0,
   movement_start_time |-> NoTime, last_distance |-> 0]

\* stop
stop_robot(r) ==
  IF ~r.is_initialized THEN r
  ELSE [r EXCEPT !.current_state = "stopped", !.current_speed = 0,
                 !.movement_start_time = NoTime]

\* initialize, when the hardware comes up: stop(), then is_initialized = True.
\* stop() runs before the flag is set, so on a first call it returns early.
initialize_robot(r) == [stop_robot(r) EXCEPT !.is_initialized = TRUE]

\* A plausible slip: cleanup releases the controller without stopping it.
cleanup_without_stop(r) == r

\* cleanup
cleanup(r) == IF r.is_initialized THEN stop_robot(r) ELSE r

\* A plausible slip: move_forward lacks the `if not self.is_initialized` test.
move_forward_unguarded(r, speed, t) ==
  [r EXCEPT !.current_state = "forward", !.current_speed = speed,
            !.movement_start_time = t]

\* move_forward(speed) without duration, called at time t
move_forward(r, speed, t) ==
  IF ~r.is_initialized THEN r
  ELSE [r EXCEPT !.current_state = "forward", !.current_speed = speed,
                 !.movement_start_time = t]

\* move_backward(speed) without duration, called at time t
move_backward(r, speed, t) ==
  IF ~r.is_initialized THEN r
  ELSE [r EXCEPT !.current_state = "backward", !.current_speed = speed,
                 !.movement_start_time = t]

\* A plausible slip: a turn restarts the bookkeeping of the movement.
turn_clears_movement(r, state) ==
  IF ~r.is_initialized THEN r
  ELSE [r EXCEPT !.current_state = state, !.movement_start_time = NoTime]

\* turn_left / turn_right: the steering angle and the state change, the speed
\* and movement_start_time do not.  center_steering leaves the state.
turn(r, state) ==
  IF ~r.is_initialized THEN r ELSE [r EXCEPT !.current_state = state]

\* get_distance with the sensor returning reading
get_distance(r, reading) ==
  IF ~r.is_initialized
  THEN [robot |-> r, distance |-> 0]
  ELSE [robot |-> [r EXCEPT !.last_distance = reading], distance |-> reading]

\* A plausible slip: the obstacle branch reports unsafe without stopping.
check_safety_no_stop(r, reading, t) ==
  LET g == get_distance(r, reading) IN
  IF 0 < g.distance /\ g.distance < emergency_stop_distance
  THEN [robot |-> g.robot, safe |-> FALSE]
  ELSE IF /\ g.robot.movement_start_time # NoTime
          /\ t - g.robot.movement_start_time > max_continuous_movement
  THEN [robot |-> stop_robot(g.robot), safe |-> FALSE]
  ELSE [robot |-> g.robot, safe |-> TRUE]

\* check_safety at time t, the sensor returning reading:
\* has_obstacle(emergency_stop_distance) reads the sensor itself.
check_safety(r, reading, t) ==
  LET g == get_distance(r, reading) IN
  IF 0 < g.distance /\ g.distance < emergency_stop_distance
  THEN [robot |-> stop_robot(g.robot), safe |-> FALSE]
  ELSE IF /\ g.robot.movement_start_time # NoTime
          /\ t - g.robot.movement_start_time > max_continuous_movement
  THEN [robot |-> stop_robot(g.robot), safe |-> FALSE]
  ELSE [robot |-> g.robot, safe |-> TRUE]

\* ------------------------------------------------------------------------
\* FeedbackLoop
\* ------------------------------------------------------------------------
RECURSIVE GCD(_, _)
GCD(a, b) == IF b = 0 THEN a ELSE GCD(b, a % b)

\* the fraction n/d in lowest terms
Fraction(n, d) == LET g == GCD(n, d) IN [num |-> n \div g, den |-> d \div g]

\* A plausible slip: the new duration is averaged with the old average.
running_average_unweighted(avg, count, loop_time) ==
  Fraction(avg.num + loop_time * avg.den, avg.den * 2)

\* (avg * (count - 1) + loop_time) / count
running_average(avg, count, loop_time) ==
  Fraction(avg.num * (count - 1) + loop_time * avg.den, avg.den * count)

\* When the robot went from standing to moving, kept while it keeps moving.
MotionBegan(began, r, t) ==
  IF r.current_speed > 0 THEN (IF began = NoTime THEN t ELSE began) ELSE NoTime

\* __init__
InitLoop ==
  /\ pc = "idle"
  /\ is_running = FALSE
  /\ mode = "autonomous"
  /\ loop_count = 0
  /\ avg_loop_time = [num |-> 0, den |-> 1]
  /\ loop_start = 0
  /\ actions = <<>>
  /\ actions_is_none = FALSE
  /\ robot = NewRobot
  /\ vision_running = FALSE
  /\ audio_running = FALSE
  /\ now = 0
  /\ exiting = FALSE
  /\ motion_began = NoTime
  /\ safety_verdict = "none"
  /\ stop_called = FALSE
  /\ init_failed = FALSE
  /\ recovered = FALSE
  /\ start_result = ""
  /\ phases_done = <<>>
  /\ run_durations = <<>>
  /\ llm_fault = "none"

\* A plausible slip: vision is treated as optional, like audio.
initialize_vision_optional(robot_ok, vision_ok, audio_ok) == robot_ok

\* initialize(): False when the robot or the vision sensor does not start;
\* audio is optional.
initialize(robot_ok, vision_ok, audio_ok) == robot_ok /\ vision_ok

\* The body of stop(): the flag, robot.cleanup(), vision.stop(), audio.stop().
StopBody ==
  /\ is_running' = FALSE
  /\ robot' = cleanup(robot)
  /\ vision_running' = FALSE
  /\ audio_running' = FALSE
  /\ stop_called' = TRUE

\* What start() returns when initialize() fails: a bare return.
FailedStartResult == "None"

\* What start() returns after the loop has run: the end of the function body.
RanLoopResult == "None"

\* start(mode) up to the call of _run_loop: initialize() starts the robot,
\* then vision, then audio; a robot or vision failure returns.
Start ==
  /\ pc = "idle"
  /\ \E robot_ok, vision_ok, audio_ok \in BOOLEAN, m \in LoopModes :
        /\ robot' = IF robot_ok THEN initialize_robot(robot) ELSE robot
        /\ vision_running' = IF robot_ok /\ vision_ok THEN TRUE ELSE vision_running
        /\ audio_running' = IF robot_ok /\ vision_ok /\ audio_ok THEN TRUE ELSE audio_running
        /\ IF initialize(robot_ok, vision_ok, audio_ok)
           THEN /\ is_running' = TRUE
                /\ mode' = m
                /\ loop_count' = 0
                /\ pc' = "loop_test"
                /\ run_durations' = <<>>
                /\ start_result' = ""
           ELSE /\ pc' = "idle"
                /\ start_result' = FailedStartResult
                /\ UNCHANGED <<is_running, mode, loop_count, run_durations>>
        /\ init_failed' = ~(robot_ok /\ vision_ok)
  /\ stop_called' = FALSE
  /\ safety_verdict' = "none"
  /\ recovered' = FALSE
  /\ UNCHANGED <<avg_loop_time, loop_start, actions, actions_is_none, now, exiting,
                 motion_began, phases_done, llm_fault>>

\* A plausible slip: a safety veto ends the loop.
LoopTest_exits_on_veto ==
  /\ pc = "loop_test"
  /\ IF is_running /\ safety_verdict # "unsafe"
     THEN /\ pc' = "perceive"
          /\ loop_start' = now
          /\ safety_verdict' = "none"
          /\ phases_done' = <<"perceive">>
     ELSE /\ pc' = "finally"
          /\ UNCHANGED <<loop_start, safety_verdict, phases_done>>
  /\ UNCHANGED <<is_running, mode, loop_count, avg_loop_time, actions, actions_is_none,
                 robot, vision_running, audio_running, now, exiting, motion_began,
                 stop_called, init_failed, recovered>>
  /\ UNCHANGED <<start_result, run_durations, llm_fault>>

\* A plausible slip: the loop is `while True`, the flag is not tested.
LoopTest_ignores_stop ==
  /\ pc = "loop_test"
  /\ pc' = "perceive"
  /\ loop_start' = now
  /\ safety_verdict' = "none"
  /\ phases_done' = <<"perceive">>
  /\ UNCHANGED <<is_running, mode, loop_count, avg_loop_time, actions, actions_is_none,
                 robot, vision_running, audio_running, now, exiting, motion_began,
                 stop_called, init_failed, recovered>>
  /\ UNCHANGED <<start_result, run_durations, llm_fault>>

\* while self.is_running: ... loop_start = time.time()
LoopTest ==
  /\ pc = "loop_test"
  /\ IF is_running
     THEN /\ pc' = "perceive"
          /\ loop_start' = now
          /\ safety_verdict' = "none"
          /\ phases_done' = <<"perceive">>
     ELSE /\ pc' = "finally"
          /\ UNCHANGED <<loop_start, safety_verdict, phases_done>>
  /\ UNCHANGED <<is_running, mode, loop_count, avg_loop_time, actions, actions_is_none,
                 robot, vision_running, audio_running, now, exiting, motion_began,
                 stop_called, init_failed, recovered>>
  /\ UNCHANGED <<start_result, run_durations, llm_fault>>

\* A plausible slip: the failed cycle is counted.
Raise_counts_cycle ==
  /\ pc' = "recover"
  /\ actions' = <<>>
  /\ actions_is_none' = FALSE
  /\ loop_count' = loop_count + 1
  /\ UNCHANGED <<is_running, mode, avg_loop_time, loop_start, robot,
                 vision_running, audio_running, now, exiting, motion_began,
                 stop_called, init_failed, recovered>>
  /\ UNCHANGED cycle_log

\* except Exception: log; the recovery sleep follows
Raise ==
  /\ pc' = "recover"
  /\ actions' = <<>>
  /\ actions_is_none' = FALSE
  /\ UNCHANGED <<is_running, mode, loop_count, avg_loop_time, loop_start, robot,
                 vision_running, audio_running, now, exiting, motion_began,
                 stop_called, init_failed, recovered>>
  /\ UNCHANGED cycle_log

\* A plausible slip: the cycle goes from perceive straight to act.
Perceive_skips_decide ==
  /\ pc = "perceive"
  /\ \E reading \in DistanceReadings : robot' = get_distance(robot, reading).robot
  /\ pc' = "act"
  /\ phases_done' = Append(phases_done, "act")
  /\ UNCHANGED <<is_running, mode, loop_count, avg_loop_time, loop_start, actions,
                 actions_is_none, vision_running, audio_running, now, exiting,
                 motion_began, safety_verdict, stop_called, init_failed, recovered>>
  /\ UNCHANGED <<start_result, run_durations, llm_fault>>

\* _perceive: the frame, the distance (get_distance), the robot state
Perceive ==
  /\ pc = "perceive"
  /\ \E reading \in DistanceReadings : robot' = get_distance(robot, reading).robot
  /\ pc' = "decide"
  /\ phases_done' = Append(phases_done, "decide")
  /\ UNCHANGED <<is_running, mode, loop_count, avg_loop_time, loop_start, actions,
                 actions_is_none, vision_running, audio_running, now, exiting,
                 motion_began, safety_verdict, stop_called, init_failed, recovered>>
  /\ UNCHANGED <<start_result, run_durations, llm_fault>>

\* _perceive raises
PerceiveRaises == pc = "perceive" /\ Raise /\ UNCHANGED safety_verdict

\* ------------------------------------------------------------------------
\* LLMEngine
\* ------------------------------------------------------------------------
\* Replies of the backend, by what json.loads and data.get('actions', [])
\* make of them: text that is not JSON, JSON that is not an object, an
\* object without 'actions', with "actions": null, with "actions": "go" (a
\* string) and with a list of tokens.
LLMReplies ==
  {[kind |-> k, actions |-> <<>>] :
      k \in {"not_json", "not_object", "actions_missing", "actions_null"}}
  \cup {[kind |-> "actions_string", actions |-> <<"g", "o">>]}
  \cup {[kind |-> "actions_list", actions |-> list] : list \in ActionLists}

\* A value evaluate hands to _act: a list, None, or a string, which _act
\* iterates character by character.
ListValue(list) == [is_none |-> FALSE, list |-> list]

\* None
NoneValue == [is_none |-> TRUE, list |-> <<>>]

\* _parse_response: only json.JSONDecodeError is caught here; data.get on
\* something that is not a dict raises AttributeError
parse_response(reply) ==
  CASE reply.kind = "not_json" -> [raised |-> FALSE, value |-> ListValue(<<>>)]
    [] reply.kind = "not_object" -> [raised |-> TRUE, value |-> ListValue(<<>>)]
    [] reply.kind = "actions_missing" -> [raised |-> FALSE, value |-> ListValue(<<>>)]
    [] reply.kind = "actions_null" -> [raised |-> FALSE, value |-> NoneValue]
    [] OTHER -> [raised |-> FALSE, value |-> ListValue(reply.actions)]

\* LLMEngine.evaluate: [] without a client, [] when the call or the parsing
\* raises, else what _parse_response returns
llm_evaluate(has_client, call_ok, reply) ==
  IF ~has_client THEN ListValue(<<>>)
  ELSE IF ~call_ok THEN ListValue(<<>>)
  ELSE LET parsed == parse_response(reply) IN
       IF parsed.raised THEN ListValue(<<>>) ELSE parsed.value

\* The fault of one evaluate call, "none" for a reply with a list of tokens.
FaultOf(has_client, call_ok, reply) ==
  IF ~has_client THEN "no_client"
  ELSE IF ~call_ok THEN "call_failed"
  ELSE IF reply.kind = "actions_list" THEN "none"
  ELSE IF reply.kind = "actions_string" THEN "actions_not_list"
  ELSE reply.kind

\* _decide: build the context, decision_engine.evaluate(context); the call
\* takes d ticks.  The reasoner engine returns None for a reply whose
\* 'actions' is null.
Decide ==
  /\ pc = "decide"
  /\ \E d \in 0..MaxDecide :
        /\ now + d <= MaxTime
        /\ now' = now + d
  /\ \/ /\ \E list \in ActionLists : actions' = list
        /\ actions_is_none' = FALSE
        /\ llm_fault' = "none"
     \/ \E has_client, call_ok \in BOOLEAN, reply \in LLMReplies :
           LET value == llm_evaluate(has_client, call_ok, reply) IN
           /\ actions' = value.list
           /\ actions_is_none' = value.is_none
           /\ llm_fault' = FaultOf(has_client, call_ok, reply)
  /\ pc' = "act"
  /\ phases_done' = Append(phases_done, "act")
  /\ UNCHANGED <<is_running, mode, loop_count, avg_loop_time, loop_start, robot,
                 vision_running, audio_running, exiting, motion_began,
                 safety_verdict, stop_called, init_failed, recovered>>
  /\ UNCHANGED <<start_result, run_durations>>

\* _decide raises
DecideRaises == pc = "decide" /\ Raise /\ UNCHANGED safety_verdict

\* _execute_action(action) at time t: the robot, the mode and the time the
\* call takes.  turned is the side turn_random picks, command the voice
\* command execute_command resolves.
execute_action(action, r, m, t, turned, command) ==
  CASE action = "stop" -> [robot |-> stop_robot(r), mode |-> m, takes |-> 0]
    [] action = "move_forward" ->
         [robot |-> move_forward(r, default_speed, t), mode |-> m, takes |-> 0]
    [] action = "move_forward_slow" ->
         [robot |-> move_forward(r, slow_speed, t), mode |-> m, takes |-> 0]
    [] action = "move_backward" ->
         [robot |-> move_backward(r, default_speed, t), mode |-> m, takes |-> 0]
    [] action = "turn_left" -> [robot |-> turn(r, "turning_left"), mode |-> m, takes |-> 0]
    [] action = "turn_right" -> [robot |-> turn(r, "turning_right"), mode |-> m, takes |-> 0]
    [] action = "turn_random" ->
         [robot |-> turn(r, turned), mode |-> m,
          takes |-> IF r.is_initialized THEN 1 ELSE 0]
    [] action = "execute_command" ->
         CASE command = "forward" ->
                [robot |-> stop_robot(move_forward(r, default_speed, t)), mode |-> m,
                 takes |-> IF r.is_initialized THEN 2 ELSE 0]
           [] command = "stop" -> [robot |-> stop_robot(r), mode |-> m, takes |-> 0]
           [] command = "follow_me" -> [robot |-> r, mode |-> "tracking", takes |-> 0]
           [] command = "explore" -> [robot |-> r, mode |-> "exploration", takes |-> 0]
           [] OTHER -> [robot |-> r, mode |-> m, takes |-> 0]
    [] OTHER -> [robot |-> r, mode |-> m, takes |-> 0]

\* _act: one pass of the for loop, the next token executed
ActToken ==
  /\ pc = "act"
  /\ ~actions_is_none
  /\ actions # <<>>
  /\ \E turned \in {"turning_left", "turning_right"}, command \in VoiceCommands :
        LET e == execute_action(Head(actions), robot, mode, now, turned, command) IN
        /\ now + e.takes <= MaxTime
        /\ now' = now + e.takes
        /\ robot' = e.robot
        /\ mode' = e.mode
  /\ actions' = Tail(actions)
  /\ UNCHANGED <<pc, is_running, loop_count, avg_loop_time, loop_start, actions_is_none,
                 vision_running, audio_running, exiting, motion_began, safety_verdict,
                 stop_called, init_failed, recovered>>
  /\ UNCHANGED cycle_log

\* A plausible slip: no try around _execute_action, so that a raising token
\* ends the phase in the except branch of the loop.
ActTokenRaises_aborts ==
  /\ pc = "act"
  /\ ~actions_is_none
  /\ actions # <<>>
  /\ Raise
  /\ UNCHANGED safety_verdict

\* _act: _execute_action raises; the except branch logs and the for loop
\* goes on with the next token
ActTokenRaises ==
  /\ pc = "act"
  /\ ~actions_is_none
  /\ actions # <<>>
  /\ actions' = Tail(actions)
  /\ UNCHANGED <<pc, is_running, mode, loop_count, avg_loop_time, loop_start,
                 actions_is_none, robot, vision_running, audio_running, now, exiting,
                 motion_began, safety_verdict, stop_called, init_failed, recovered>>
  /\ UNCHANGED cycle_log

\* A plausible slip: _evaluate is left out of the cycle.
ActDone_without_evaluate ==
  /\ pc = "act"
  /\ ~actions_is_none
  /\ actions = <<>>
  /\ pc' = "metrics"
  /\ UNCHANGED <<is_running, mode, loop_count, avg_loop_time, loop_start, actions,
                 actions_is_none, robot, vision_running, audio_running, now, exiting,
                 motion_began, safety_verdict, stop_called, init_failed, recovered>>
  /\ llm_fault' = "none"
  /\ UNCHANGED <<start_result, phases_done, run_durations>>

\* _act: the for loop is over
ActDone ==
  /\ pc = "act"
  /\ ~actions_is_none
  /\ actions = <<>>
  /\ pc' = "evaluate"
  /\ phases_done' = Append(phases_done, "evaluate")
  /\ UNCHANGED <<is_running, mode, loop_count, avg_loop_time, loop_start, actions,
                 actions_is_none, robot, vision_running, audio_running, now, exiting,
                 motion_began, safety_verdict, stop_called, init_failed, recovered>>
  /\ llm_fault' = "none"
  /\ UNCHANGED <<start_result, run_durations>>

\* _act raises: for action in None
ActRaises == pc = "act" /\ actions_is_none /\ Raise /\ UNCHANGED safety_verdict

\* A plausible slip: an unsafe verdict halts the loop.
EvaluatePhase_halts_on_unsafe ==
  /\ pc = "evaluate"
  /\ \E reading \in DistanceReadings :
        LET c == check_safety(robot, reading, now) IN
        /\ robot' = c.robot
        /\ safety_verdict' = IF c.safe THEN "safe" ELSE "unsafe"
        /\ is_running' = (is_running /\ c.safe)
  /\ pc' = "metrics"
  /\ UNCHANGED <<mode, loop_count, avg_loop_time, loop_start, actions,
                 actions_is_none, vision_running, audio_running, now, exiting,
                 motion_began, stop_called, init_failed, recovered>>
  /\ UNCHANGED cycle_log

\* _evaluate: robot.check_safety()
EvaluatePhase ==
  /\ pc = "evaluate"
  /\ \E reading \in DistanceReadings :
        LET c == check_safety(robot, reading, now) IN
        /\ robot' = c.robot
        /\ safety_verdict' = IF c.safe THEN "safe" ELSE "unsafe"
  /\ pc' = "metrics"
  /\ UNCHANGED <<is_running, mode, loop_count, avg_loop_time, loop_start, actions,
                 actions_is_none, vision_running, audio_running, now, exiting,
                 motion_began, stop_called, init_failed, recovered>>
  /\ UNCHANGED cycle_log

\* _evaluate raises: check_safety was entered and did not return
EvaluateRaises == pc = "evaluate" /\ Raise /\ safety_verdict' = "raised"

\* A plausible slip: the sleep is the whole period, whatever the cycle took.
UpdateMetrics_sleeps_whole_period ==
  /\ pc = "metrics"
  /\ LET loop_time == now - loop_start
     IN /\ loop_count' = loop_count + 1
        /\ avg_loop_time' = running_average(avg_loop_time, loop_count + 1, loop_time)
        /\ run_durations' = Append(run_durations, loop_time)
        /\ now + loop_period <= MaxTime
        /\ now' = now + loop_period
  /\ pc' = "loop_test"
  /\ recovered' = FALSE
  /\ UNCHANGED <<is_running, mode, loop_start, actions, actions_is_none, robot,
                 vision_running, audio_running, exiting, motion_began, safety_verdict,
                 stop_called, init_failed>>
  /\ phases_done' = <<>>
  /\ UNCHANGED <<start_result, llm_fault>>

\* lines 169-182: the metrics, then the sleep to the end of the period
UpdateMetrics ==
  /\ pc = "metrics"
  /\ LET loop_time == now - loop_start
         sleep_time == loop_period - loop_time
     IN /\ loop_count' = loop_count + 1
        /\ avg_loop_time' = running_average(avg_loop_time, loop_count + 1, loop_time)
        /\ run_durations' = Append(run_durations, loop_time)
        /\ IF sleep_time > 0
           THEN now + sleep_time <= MaxTime /\ now' = now + sleep_time
           ELSE now' = now
  /\ pc' = "loop_test"
  /\ recovered' = FALSE
  /\ UNCHANGED <<is_running, mode, loop_start, actions, actions_is_none, robot,
                 vision_running, audio_running, exiting, motion_began, safety_verdict,
                 stop_called, init_failed>>
  /\ phases_done' = <<>>
  /\ UNCHANGED <<start_result, llm_fault>>

\* time.sleep(0.5) of the except branch
Recover ==
  /\ pc = "recover"
  /\ now + recovery_pause <= MaxTime
  /\ now' = now + recovery_pause
  /\ pc' = "loop_test"
  /\ recovered' = TRUE
  /\ UNCHANGED <<is_running, mode, loop_count, avg_loop_time, loop_start, actions,
                 actions_is_none, robot, vision_running, audio_running, exiting,
                 motion_began, safety_verdict, stop_called, init_failed>>
  /\ phases_done' = <<>>
  /\ llm_fault' = "none"
  /\ UNCHANGED <<start_result, run_durations>>

\* finally: self.stop(), and start() returns (or the process exits)
Finally ==
  /\ pc = "finally"
  /\ StopBody
  /\ pc' = IF exiting THEN "exited" ELSE "idle"
  /\ start_result' = IF exiting THEN start_result ELSE RanLoopResult
  /\ actions' = <<>>
  /\ actions_is_none' = FALSE
  /\ UNCHANGED <<mode, loop_count, avg_loop_time, loop_start, now, exiting,
                 motion_began, safety_verdict, init_failed, recovered>>
  /\ UNCHANGED <<phases_done, run_durations, llm_fault>>

\* stop() called from another thread while start() is running
ExternalStop ==
  /\ pc \notin {"idle", "exited"}
  /\ StopBody
  /\ UNCHANGED <<pc, mode, loop_count, avg_loop_time, loop_start, actions,
                 actions_is_none, now, exiting, motion_began, safety_verdict, init_failed, recovered>>
  /\ UNCHANGED cycle_log

\* _signal_handler: stop(), then sys.exit(0) raises SystemExit in the thread
\* that runs the loop; only the finally of start() is still executed
SignalHandler ==
  /\ pc \notin {"idle", "exited", "finally"}
  /\ StopBody
  /\ exiting' = TRUE
  /\ pc' = "finally"
  /\ UNCHANGED <<mode, loop_count, avg_loop_time, loop_start, actions, actions_is_none,
                 now, motion_began, safety_verdict, init_failed, recovered>>
  /\ phases_done' = <<>>
  /\ llm_fault' = "none"
  /\ UNCHANGED <<start_result, run_durations>>

NextLoop ==
  \/ Start /\ UNCHANGED <<rule_vars, side_vars>>
  \/ LoopTest /\ UNCHANGED <<rule_vars, side_vars>>
  \/ Perceive /\ UNCHANGED <<rule_vars, side_vars>>
  \/ PerceiveRaises /\ UNCHANGED <<rule_vars, side_vars>>
  \/ Decide /\ UNCHANGED <<rule_vars, side_vars>>
  \/ DecideRaises /\ UNCHANGED <<rule_vars, side_vars>>
  \/ ActToken /\ UNCHANGED <<rule_vars, side_vars>>
  \/ ActTokenRaises /\ UNCHANGED <<rule_vars, side_vars>>
  \/ ActDone /\ UNCHANGED <<rule_vars, side_vars>>
  \/ ActRaises /\ UNCHANGED <<rule_vars, side_vars>>
  \/ EvaluatePhase /\ UNCHANGED <<rule_vars, side_vars>>
  \/ EvaluateRaises /\ UNCHANGED <<rule_vars, side_vars>>
  \/ UpdateMetrics /\ UNCHANGED <<rule_vars, side_vars>>
  \/ Recover /\ UNCHANGED <<rule_vars, side_vars>>
  \/ Finally /\ UNCHANGED <<rule_vars, side_vars>>
  \/ ExternalStop /\ UNCHANGED <<rule_vars, side_vars>>
  \/ SignalHandler /\ UNCHANGED <<rule_vars, side_vars>>

\* ------------------------------------------------------------------------
\* ContextBuilder
\* ------------------------------------------------------------------------
\* time.time() at tick t: seconds since the epoch, never 0
time_time(t) == t + 1

\* `if self.last_activity_time:` is false for None and for 0
Truthy(t) == t # NoTime /\ t # 0

\* A plausible slip: idle_time is computed before last_activity_time is
\* refreshed.
build_context_stale(last, face_detected, color_detected, voice_detected, current_time) ==
  LET stimulus == face_detected \/ color_detected \/ voice_detected
  IN [last_activity_time |-> IF stimulus THEN current_time ELSE last,
      context |-> [face_detected |-> face_detected,
                   color_detected |-> color_detected,
                   voice_detected |-> voice_detected,
                   idle_time |-> IF Truthy(last) THEN current_time - last ELSE 0]]

\* A plausible slip: a builder that has seen no stimulus counts the idle time
\* from its first call.
build_context_idle_from_first_call(last, face_detected, color_detected, voice_detected, current_time) ==
  LET stimulus == face_detected \/ color_detected \/ voice_detected
      refreshed == IF stimulus \/ ~Truthy(last) THEN current_time ELSE last
  IN [last_activity_time |-> refreshed,
      context |-> [face_detected |-> face_detected,
                   color_detected |-> color_detected,
                   voice_detected |-> voice_detected,
                   idle_time |-> current_time - refreshed]]

\* build_context, the facts idle_time depends on: the new last_activity_time
\* and the context returned
build_context(last, face_detected, color_detected, voice_detected, current_time) ==
  LET stimulus == face_detected \/ color_detected \/ voice_detected
      refreshed == IF stimulus THEN current_time ELSE last
  IN [last_activity_time |-> refreshed,
      context |-> [face_detected |-> face_detected,
                   color_detected |-> color_detected,
                   voice_detected |-> voice_detected,
                   idle_time |-> IF Truthy(refreshed) THEN current_time - refreshed ELSE 0]]

\* A context built from a face, a colour or a voice.
Stimulus(c) == c.face_detected \/ c.color_detected \/ c.voice_detected

\* ContextBuilder.__init__; no context has been built
InitContext ==
  /\ last_activity_time = NoTime
  /\ built_context = [face_detected |-> FALSE, color_detected |-> FALSE,
                      voice_detected |-> FALSE, idle_time |-> 0]
  /\ context_at = NoTime
  /\ stimulus_at = NoTime

\* no evaluate() in flight
NoScan == [active |-> FALSE, index |-> 0, detached |-> FALSE, items |-> <<>>]

\* no mutator call made
NoMutation == [op |-> "none", stage |-> "none", before |-> <<>>, after |-> <<>>,
               saved |-> <<>>]

InitScan ==
  /\ scan = NoScan
  /\ mutation = NoMutation

\* perception['audio'] = None
NoAudio == "<None>"

\* Texts the recogniser produces: three with a keyword of VOICE_COMMANDS, one
\* without.
Utterances == {"forward", "follow me", "explore", "hello"}

\* AudioSensor.__init__ and the loop before start()
InitVoice ==
  /\ audio = [is_running |-> FALSE, is_listening |-> FALSE, last_transcription |-> ""]
  /\ voice_pc = "new"
  /\ voice_running = FALSE
  /\ perception_audio = NoAudio
  /\ voice_actions = <<>>
  /\ voice_log = [requested |-> FALSE, slot_reads |-> 0, read_when_latest |-> "",
                  heard |-> {}, published |-> "", started_mode |-> "autonomous",
                  perceived |-> 0]

\* A transcription: None, or a str as the list of its characters.
NoText == [is_none |-> TRUE, chars |-> <<>>]
Text(chars) == [is_none |-> FALSE, chars |-> chars]

\* _parse_voice_command returned None
NoCommand == ""

InitLexicon ==
  /\ voice_text = NoText
  /\ parsed_command = [done |-> FALSE, action |-> NoCommand]

\* most FeedbackLoop instances one process constructs
MaxLoops == 3

Instances == 1..MaxLoops

\* no instance: the handler Python installs, nothing running
NoInstance == 0

\* a process that has constructed no FeedbackLoop yet
InitProcess ==
  /\ loops = [i \in Instances |->
                [constructed |-> FALSE, is_running |-> FALSE, cleaned |-> FALSE]]
  /\ handler = NoInstance
  /\ main_at = "menu"
  /\ active = NoInstance
  /\ interrupted = NoInstance

\* no _decide has returned
NoActLog == [decided |-> <<>>, dispatched |-> <<>>]

InitAct == act_log = NoActLog

\* no _decide call made
NoDecideCall == [made |-> FALSE]

InitFacts == decide_call = NoDecideCall

\* no explain_decision call made
NoExplanation == [made |-> FALSE]

InitExplain == explained = NoExplanation

InitSide ==
  /\ InitContext /\ InitScan /\ InitVoice /\ InitLexicon /\ InitProcess /\ InitAct
  /\ InitFacts /\ InitExplain

\* the engine of the loop is not mutated while the loop is followed
InitEngineIdle ==
  /\ rules = parse_rules(BEHAVIOR_RULES)
  /\ evaluated = FALSE
  /\ eval_ctx = [f \in {} |-> 0]
  /\ eval_result = <<>>
  /\ trail = [op |-> "other", name |-> "", before |-> <<>>]
  /\ inserted = [p \in Priorities |-> OfPriority(InTableOrder(BEHAVIOR_RULES), p)]
  /\ rule_log = [op |-> "none", name |-> "", known |-> FALSE, kept |-> TRUE, level |-> ""]
  /\ disabled_by_call = {}

\* a FeedbackLoop after construction
InitFeedbackLoop == InitLoop /\ InitEngineIdle /\ InitSide

SpecLoop == InitFeedbackLoop /\ [][NextLoop]_vars

\* The thread that called start(): the next statement of the loop, of its
\* except branch or of the finally clause.
LoopThread ==
  /\ \/ LoopTest \/ Perceive \/ PerceiveRaises \/ Decide \/ DecideRaises
     \/ ActToken \/ ActTokenRaises \/ ActDone \/ ActRaises
     \/ EvaluatePhase \/ EvaluateRaises \/ UpdateMetrics \/ Recover \/ Finally
  /\ UNCHANGED <<rule_vars, side_vars>>

\* The loop with its thread scheduled: while the thread has a statement to
\* run, it runs one.  Calls from outside (start, stop, a signal) come or not.
SpecLoopFair == InitFeedbackLoop /\ [][NextLoop]_vars /\ WF_vars(LoopThread)

\* ------------------------------------------------------------------------
\* The act phase, token by token: the loop with a record of what _act did
\* with each token of the list _decide returned.
\* ------------------------------------------------------------------------
\* the tokens _execute_action has a branch for ('speak:' tokens aside)
KnownActions ==
  {"stop", "move_forward", "move_forward_slow", "move_backward", "turn_left",
   "turn_right", "turn_random", "track_face", "track_color", "scan_environment",
   "avoid_obstacle", "take_photo", "play_sound", "parse_command", "execute_command"}

\* what the log shows for a token _execute_action returned from: nothing
\* for a known token, the warning of the else branch for any other
execute_action_log(action) == IF action \in KnownActions THEN "none" ELSE "warning"

\* _decide returns the list _act is called with
DecideList ==
  /\ Decide
  /\ act_log' = [decided |-> actions', dispatched |-> <<>>]

\* _act: _execute_action returns for the next token
DispatchToken ==
  /\ ActToken
  /\ act_log' = [act_log EXCEPT !.dispatched =
        Append(@, [token |-> Head(actions), level |-> execute_action_log(Head(actions))])]

\* _act: _execute_action raises for the next token; logger.error
DispatchTokenRaises ==
  /\ ActTokenRaises
  /\ act_log' = [act_log EXCEPT !.dispatched =
        Append(@, [token |-> Head(actions), level |-> "error"])]

\* the cycle is over: the list and its record are dropped
ForgetList == act_log' = NoActLog

NextAct ==
  \/ Start /\ UNCHANGED <<rule_vars, side_vars>>
  \/ LoopTest /\ UNCHANGED <<rule_vars, side_vars>>
  \/ Perceive /\ UNCHANGED <<rule_vars, side_vars>>
  \/ PerceiveRaises /\ UNCHANGED <<rule_vars, side_vars>>
  \/ DecideList /\ UNCHANGED <<rule_vars, act_idle_vars>>
  \/ DecideRaises /\ UNCHANGED <<rule_vars, side_vars>>
  \/ DispatchToken /\ UNCHANGED <<rule_vars, act_idle_vars>>
  \/ DispatchTokenRaises /\ UNCHANGED <<rule_vars, act_idle_vars>>
  \/ ActDone /\ UNCHANGED <<rule_vars, side_vars>>
  \/ ActRaises /\ UNCHANGED <<rule_vars, side_vars>>
  \/ EvaluatePhase /\ UNCHANGED <<rule_vars, side_vars>>
  \/ EvaluateRaises /\ ForgetList /\ UNCHANGED <<rule_vars, act_idle_vars>>
  \/ UpdateMetrics /\ ForgetList /\ UNCHANGED <<rule_vars, act_idle_vars>>
  \/ Recover /\ UNCHANGED <<rule_vars, side_vars>>
  \/ Finally /\ UNCHANGED <<rule_vars, side_vars>>
  \/ ExternalStop /\ UNCHANGED <<rule_vars, side_vars>>
  \/ SignalHandler /\ ForgetList /\ UNCHANGED <<rule_vars, act_idle_vars>>

SpecAct == InitFeedbackLoop /\ [][NextAct]_vars

\* ------------------------------------------------------------------------
\* RobotController: state machine of the calls a client makes, with the
\* clock.  motion_began follows the motion itself; safety_verdict is the
\* result of check_safety while no other call or tick has followed it.
\* ------------------------------------------------------------------------
CallInitialize ==
  /\ robot' = initialize_robot(robot)
  /\ motion_began' = MotionBegan(motion_began, robot', now)
  /\ safety_verdict' = "none"
  /\ UNCHANGED now

CallMoveForward ==
  /\ \E speed \in {default_speed, slow_speed} : robot' = move_forward(robot, speed, now)
  /\ motion_began' = MotionBegan(motion_began, robot', now)
  /\ safety_verdict' = "none"
  /\ UNCHANGED now

CallMoveBackward ==
  /\ \E speed \in {default_speed, slow_speed} : robot' = move_backward(robot, speed, now)
  /\ motion_began' = MotionBegan(motion_began, robot', now)
  /\ safety_verdict' = "none"
  /\ UNCHANGED now

CallTurn ==
  /\ \E state \in {"turning_left", "turning_right"} : robot' = turn(robot, state)
  /\ motion_began' = MotionBegan(motion_began, robot', now)
  /\ safety_verdict' = "none"
  /\ UNCHANGED now

CallStop ==
  /\ robot' = stop_robot(robot)
  /\ motion_began' = MotionBegan(motion_began, robot', now)
  /\ safety_verdict' = "none"
  /\ UNCHANGED now

CallCheckSafety ==
  /\ \E reading \in DistanceReadings :
        LET c == check_safety(robot, reading, now) IN
        /\ robot' = c.robot
        /\ safety_verdict' = IF c.safe THEN "safe" ELSE "unsafe"
  /\ motion_began' = MotionBegan(motion_began, robot', now)
  /\ UNCHANGED now

\* half a second passes
Tick ==
  /\ now < MaxClock
  /\ now' = now + 1
  /\ safety_verdict' = "none"
  /\ UNCHANGED <<robot, motion_began>>

robot_idle_vars ==
  <<pc, is_running, mode, loop_count, avg_loop_time, loop_start, actions,
    actions_is_none, vision_running, audio_running, exiting, stop_called,
    init_failed, recovered, cycle_log>>

NextRobot ==
  \/ CallInitialize /\ UNCHANGED <<rule_vars, robot_idle_vars, side_vars>>
  \/ CallMoveForward /\ UNCHANGED <<rule_vars, robot_idle_vars, side_vars>>
  \/ CallMoveBackward /\ UNCHANGED <<rule_vars, robot_idle_vars, side_vars>>
  \/ CallTurn /\ UNCHANGED <<rule_vars, robot_idle_vars, side_vars>>
  \/ CallStop /\ UNCHANGED <<rule_vars, robot_idle_vars, side_vars>>
  \/ CallCheckSafety /\ UNCHANGED <<rule_vars, robot_idle_vars, side_vars>>
  \/ Tick /\ UNCHANGED <<rule_vars, robot_idle_vars, side_vars>>

SpecRobot == InitFeedbackLoop /\ [][NextRobot]_vars

\* ------------------------------------------------------------------------
\* ContextBuilder: state machine of build_context calls, with the clock
\* ------------------------------------------------------------------------
\* one build_context call
BuildContext ==
  /\ \E face_detected, color_detected, voice_detected \in BOOLEAN :
        LET built == build_context(last_activity_time, face_detected, color_detected,
                                   voice_detected, time_time(now)) IN
        /\ last_activity_time' = built.last_activity_time
        /\ built_context' = built.context
        /\ stimulus_at' = IF face_detected \/ color_detected \/ voice_detected
                          THEN now ELSE stimulus_at
  /\ context_at' = now
  /\ UNCHANGED now

\* half a second passes between two calls
ContextTick ==
  /\ now < MaxClock
  /\ now' = now + 1
  /\ UNCHANGED context_vars

NextContext ==
  \/ BuildContext /\ UNCHANGED <<rule_vars, robot_idle_vars, robot, motion_began,
                                  safety_verdict, scan_vars, voice_vars, lexicon_vars, process_vars, act_vars, facts_vars, explain_vars>>
  \/ ContextTick /\ UNCHANGED <<rule_vars, robot_idle_vars, robot, motion_began,
                                 safety_verdict, scan_vars, voice_vars, lexicon_vars, process_vars, act_vars, facts_vars, explain_vars>>

\* a ContextBuilder after construction
InitContextBuilder == InitLoop /\ InitEngineIdle /\ InitSide

SpecContext == InitContextBuilder /\ [][NextContext]_vars

\* ------------------------------------------------------------------------
\* ContextBuilder.build_context in full, and _decide with the rule engine
\* on BEHAVIOR_RULES: every fact of the context, from the inputs of the call.
\* ------------------------------------------------------------------------
\* DECISION_CONFIG['obstacle_distance_threshold'], cm
obstacle_distance_threshold == 20

\* d.get(key, default)
dict_get(d, key, default) == IF key \in DOMAIN d THEN d[key] ELSE default

\* a Python bool as the integer it equals
Bool(b) == IF b THEN 1 ELSE 0

\* a detected region: a dict with a width and a height
Region(w, h) == [k \in {"width", "height"} |-> IF k = "width" THEN w ELSE h]

VisionKeys == {"faces", "colors", "qr_codes", "gestures", "traffic_signs"}

\* capture_frame with every list in place: faces, colors, and one list of
\* `other` (a key, or "" for none) holding one detection
Frame(faces, colors, other) ==
  [k \in VisionKeys |->
     CASE k = "faces" -> faces
       [] k = "colors" -> colors
       [] OTHER -> IF k = other THEN <<Region(2, 2)>> ELSE <<>>]

\* capture_frame of a sensor that is not running: {}
EmptyFrame == [k \in {} |-> <<>>]

\* Colour lists: none, one region of 200, a first region of 50 before a
\* larger one, and a region without a width.
ColorLists ==
  {<<>>, <<Region(20, 10)>>, <<Region(5, 10), Region(20, 10)>>,
   <<[k \in {"height"} |-> 10]>>}

VisionFrames ==
  {EmptyFrame}
    \cup {Frame(faces, colors, "") :
            faces \in {<<>>, <<Region(4, 4)>>}, colors \in ColorLists}
    \cup {Frame(<<>>, <<>>, other) : other \in {"qr_codes", "gestures", "traffic_signs"}}

\* perception['audio']: None, the empty transcription, a transcription
AudioData == {NoAudio, "", "forward"}

\* perception['robot_state'], and a dict without 'speed'
RobotStates ==
  {[k \in {} |-> 0]} \cup {[k \in {"speed"} |-> v] : v \in {0, default_speed}}

\* perception['distance']: get_distance's 0, and readings below, at and
\* above the threshold
Distances == {0, 15, 20, 30}

\* Inputs of the calls that are followed over time.
QuietFrames ==
  {EmptyFrame, Frame(<<>>, <<>>, ""), Frame(<<Region(4, 4)>>, <<>>, ""),
   Frame(<<>>, <<Region(5, 10)>>, "")}

\* A plausible slip: color_size is taken from the largest region.
build_context_facts_largest_region(vision_data, audio_data, robot_state, distance) ==
  LET colors == dict_get(vision_data, "colors", <<>>)
      sizes == {dict_get(colors[i], "width", 0) * dict_get(colors[i], "height", 0) :
                  i \in 1..Len(colors)}
      color_detected == Len(colors) > 0
      voice_detected == audio_data # NoAudio /\ audio_data # ""
  IN [face_detected |-> Bool(Len(dict_get(vision_data, "faces", <<>>)) > 0),
      color_detected |-> Bool(color_detected),
      qr_detected |-> Bool(Len(dict_get(vision_data, "qr_codes", <<>>)) > 0),
      gesture_detected |-> Bool(Len(dict_get(vision_data, "gestures", <<>>)) > 0),
      traffic_sign_detected |-> Bool(Len(dict_get(vision_data, "traffic_signs", <<>>)) > 0),
      color_size |-> IF color_detected
                     THEN CHOOSE m \in sizes : \A n \in sizes : n <= m
                     ELSE 0,
      voice_detected |-> Bool(voice_detected),
      voice_text |-> IF voice_detected THEN audio_data ELSE "",
      obstacle_distance |-> distance,
      has_obstacle |-> Bool(0 < distance /\ distance < obstacle_distance_threshold),
      is_moving |-> Bool(dict_get(robot_state, "speed", 0) > 0)]

\* build_context, every fact but idle_time (lines 269-289 and 302)
build_context_facts(vision_data, audio_data, robot_state, distance) ==
  LET colors == dict_get(vision_data, "colors", <<>>)
      color_detected == Len(colors) > 0
      voice_detected == audio_data # NoAudio /\ audio_data # ""
  IN [face_detected |-> Bool(Len(dict_get(vision_data, "faces", <<>>)) > 0),
      color_detected |-> Bool(color_detected),
      qr_detected |-> Bool(Len(dict_get(vision_data, "qr_codes", <<>>)) > 0),
      gesture_detected |-> Bool(Len(dict_get(vision_data, "gestures", <<>>)) > 0),
      traffic_sign_detected |-> Bool(Len(dict_get(vision_data, "traffic_signs", <<>>)) > 0),
      color_size |-> IF color_detected
                     THEN dict_get(colors[1], "width", 0) * dict_get(colors[1], "height", 0)
                     ELSE 0,
      voice_detected |-> Bool(voice_detected),
      voice_text |-> IF voice_detected THEN audio_data ELSE "",
      obstacle_distance |-> distance,
      has_obstacle |-> Bool(0 < distance /\ distance < obstacle_distance_threshold),
      is_moving |-> Bool(dict_get(robot_state, "speed", 0) > 0)]

\* the context dict: the facts and idle_time, by key
context_dict(facts, idle_time) ==
  [k \in DOMAIN facts \cup {"idle_time"} |-> IF k = "idle_time" THEN idle_time ELSE facts[k]]

\* _decide(perception): build_context, then decision_engine.evaluate.  The
\* builder keeps last_activity_time; the engine's rules are BEHAVIOR_RULES.
BuildAndEvaluate(frames, audios, robot_states, distances) ==
  /\ \E vision_data \in frames, audio_data \in audios, robot_state \in robot_states,
        distance \in distances :
        LET facts == build_context_facts(vision_data, audio_data, robot_state, distance)
            built == build_context(last_activity_time, facts.face_detected = 1,
                                   facts.color_detected = 1, facts.voice_detected = 1,
                                   time_time(now))
            context == context_dict(facts, built.context.idle_time)
        IN /\ last_activity_time' = built.last_activity_time
           /\ built_context' = built.context
           /\ stimulus_at' = IF Stimulus(built.context) THEN now ELSE stimulus_at
           /\ decide_call' =
                 [made |-> TRUE,
                  inputs |-> [vision_data |-> vision_data, audio_data |-> audio_data,
                              robot_state |-> robot_state, distance |-> distance],
                  context |-> context,
                  actions |-> evaluate(rules, context)]
  /\ context_at' = now
  /\ UNCHANGED now

NextFacts ==
  BuildAndEvaluate(VisionFrames, AudioData, RobotStates, Distances)
    /\ UNCHANGED <<rule_vars, robot_idle_vars, robot, motion_began, safety_verdict,
                   scan_vars, voice_vars, lexicon_vars, process_vars, act_vars,
                   explain_vars>>

SpecFacts == InitContextBuilder /\ [][NextFacts]_vars

NextIdle ==
  \/ BuildAndEvaluate(QuietFrames, {NoAudio, "forward"}, {[k \in {"speed"} |-> 0]},
                      {0, 15, 30})
       /\ UNCHANGED <<rule_vars, robot_idle_vars, robot, motion_began, safety_verdict,
                      scan_vars, voice_vars, lexicon_vars, process_vars, act_vars,
                      explain_vars>>
  \/ ContextTick
       /\ UNCHANGED <<rule_vars, robot_idle_vars, robot, motion_began, safety_verdict,
                      scan_vars, voice_vars, lexicon_vars, process_vars, act_vars,
                      facts_vars, explain_vars>>

SpecIdle == InitContextBuilder /\ [][NextIdle]_vars

\* ------------------------------------------------------------------------
\* _parse_voice_command over VOICE_COMMANDS.  A str is the list of its
\* characters.
\* ------------------------------------------------------------------------
\* longest utterance, in words
MaxWords == 2

\* VOICE_COMMANDS, in dict order: seven of its commands with the phrases that
\* overlap ('left' in 'look left', 'follow' in 'follow me', 'para' in other
\* words).
VOICE_COMMANDS ==
  <<[action |-> "forward",
      keywords |-> <<<<"f", "o", "r", "w", "a", "r", "d">>,
                     <<"g", "o", " ", "f", "o", "r", "w", "a", "r", "d">>>>],
     [action |-> "left",
      keywords |-> <<<<"l", "e", "f", "t">>,
                     <<"t", "u", "r", "n", " ", "l", "e", "f", "t">>>>],
     [action |-> "stop",
      keywords |-> <<<<"s", "t", "o", "p">>,
                     <<"p", "a", "r", "a">>>>],
     [action |-> "follow_me",
      keywords |-> <<<<"f", "o", "l", "l", "o", "w", " ", "m", "e">>,
                     <<"f", "o", "l", "l", "o", "w">>>>],
     [action |-> "explore",
      keywords |-> <<<<"e", "x", "p", "l", "o", "r", "e">>,
                     <<"l", "o", "o", "k", " ", "a", "r", "o", "u", "n", "d">>>>],
     [action |-> "look_left",
      keywords |-> <<<<"l", "o", "o", "k", " ", "l", "e", "f", "t">>>>],
     [action |-> "status",
      keywords |-> <<<<"s", "t", "a", "t", "u", "s">>>>]>>

\* Words the recogniser can produce.
Vocabulary ==
  { <<"l", "o", "o", "k">>,
    <<"l", "e", "f", "t">>,
    <<"L", "E", "F", "T">>,
    <<"S", "t", "o", "p">>,
    <<"f", "o", "l", "l", "o", "w">>,
    <<"m", "e">>,
    <<"h", "e", "l", "l", "o">>,
    <<"F", "o", "r", "w", "a", "r", "d">>,
    <<"s", "e", "p", "a", "r", "a", "t", "e">>,
    <<"s", "t", "a", "t", "u", "s">> }

UppercaseLetters == <<"A", "B", "C", "D", "E", "F", "G", "H", "I", "J", "K", "L", "M", "N", "O", "P", "Q", "R", "S", "T", "U", "V", "W", "X", "Y", "Z">>
LowercaseLetters == <<"a", "b", "c", "d", "e", "f", "g", "h", "i", "j", "k", "l", "m", "n", "o", "p", "q", "r", "s", "t", "u", "v", "w", "x", "y", "z">>

\* str.lower() on one character
lower_char(c) ==
  IF \E i \in 1..26 : UppercaseLetters[i] = c
  THEN LowercaseLetters[CHOOSE i \in 1..26 : UppercaseLetters[i] = c]
  ELSE c

\* voice_text.lower()
str_lower(text) == [i \in 1..Len(text) |-> lower_char(text[i])]

\* keyword in voice_lower
contains(keyword, text) ==
  \E i \in 1..(Len(text) - Len(keyword) + 1) : SubSeq(text, i, i + Len(keyword) - 1) = keyword

\* the two for loops: the first command, in dict order, with a keyword in
\* the text; None when there is none
RECURSIVE parse_from(_, _)
parse_from(voice_lower, i) ==
  IF i > Len(VOICE_COMMANDS) THEN NoCommand
  ELSE IF \E k \in 1..Len(VOICE_COMMANDS[i].keywords) :
             contains(VOICE_COMMANDS[i].keywords[k], voice_lower)
       THEN VOICE_COMMANDS[i].action
       ELSE parse_from(voice_lower, i + 1)

\* A plausible slip: the text is matched as it is, without lower().
parse_voice_command_case_sensitive(text) ==
  IF text.is_none \/ text.chars = <<>> THEN NoCommand
  ELSE parse_from(text.chars, 1)

\* _parse_voice_command: `if not voice_text: return None`, then the search
\* in voice_text.lower()
parse_voice_command(text) ==
  IF text.is_none \/ text.chars = <<>> THEN NoCommand
  ELSE parse_from(str_lower(text.chars), 1)

\* ------------------------------------------------------------------------
\* The voice path: AudioSensor, its listener thread, and what the loop does
\* with perception['audio'].  The robot and the vision sensor come up.
\* ------------------------------------------------------------------------
\* AudioSensor.start_listening: nothing unless the sensor is running
start_listening(a) == IF ~a.is_running THEN a ELSE [a EXCEPT !.is_listening = TRUE]

\* AudioSensor.stop
audio_stop(a) == [a EXCEPT !.is_running = FALSE, !.is_listening = FALSE]

\* A plausible slip: the action reads the sensor's slot again.
utterance_reread(perception, slot) == slot

\* perception.get('audio') in _execute_action
utterance_used(perception, slot) == perception

\* most cycles the loop of SpecVoice is followed for
MaxCycles == 2
\* the cycles that perceived one publication are counted up to this number
MaxReports == 2

\* the loop's variables the voice path leaves alone
voice_loop_rest ==
  <<pc, is_running, avg_loop_time, loop_start, actions, actions_is_none, robot,
    vision_running, audio_running, now, exiting, motion_began, safety_verdict,
    stop_called, init_failed, recovered, cycle_log>>

\* perception['audio'] as _parse_voice_command gets it
UtteranceText(utterance) ==
  CASE utterance = NoAudio -> NoText
    [] utterance = "" -> Text(<<>>)
    [] utterance = "forward" -> Text(<<"f", "o", "r", "w", "a", "r", "d">>)
    [] utterance = "follow me" -> Text(<<"f", "o", "l", "l", "o", "w", " ", "m", "e">>)
    [] utterance = "explore" -> Text(<<"e", "x", "p", "l", "o", "r", "e">>)
    [] utterance = "hello" -> Text(<<"h", "e", "l", "l", "o">>)

\* _execute_voice_command: 'follow_me' and 'explore' call _set_mode
voice_command_mode(command, m) ==
  CASE command = "follow_me" -> "tracking"
    [] command = "explore" -> "exploration"
    [] OTHER -> m

\* enable_voice_control(); voice_log.requested: it was called on a loop
\* that start() has not been called on yet
EnableVoiceControl ==
  /\ audio' = start_listening(audio)
  /\ voice_log' = [voice_log EXCEPT !.requested = @ \/ voice_pc = "new"]
  /\ UNCHANGED <<voice_pc, voice_running, perception_audio, voice_actions>>

\* disable_voice_control()
DisableVoiceControl ==
  /\ audio' = [audio EXCEPT !.is_listening = FALSE]
  /\ UNCHANGED <<voice_pc, voice_running, perception_audio, voice_actions, voice_log>>

\* start(): initialize() calls audio.start(), which may fail; is_running
VoiceStart ==
  /\ voice_pc \in {"new", "stopped"}
  /\ \E audio_ok \in BOOLEAN : audio' = [audio EXCEPT !.is_running = audio_ok]
  /\ voice_running' = TRUE
  /\ \E m \in LoopModes :
        /\ mode' = m
        /\ voice_log' = [voice_log EXCEPT !.started_mode = m]
  /\ loop_count' = 0
  /\ voice_pc' = "loop_test"
  /\ UNCHANGED <<perception_audio, voice_actions>>

\* _process_audio on the listener thread: a recognised, non-empty text is
\* stored in last_transcription
ListenerPublish ==
  /\ audio.is_running
  /\ audio.is_listening
  /\ \E text \in Utterances :
        /\ audio' = [audio EXCEPT !.last_transcription = text]
        /\ voice_log' = [voice_log EXCEPT !.published = text, !.perceived = 0]
  /\ UNCHANGED <<voice_pc, voice_running, perception_audio, voice_actions>>

\* while self.is_running
VoiceLoopTest ==
  /\ voice_pc = "loop_test"
  /\ voice_pc' = IF voice_running THEN "perceive" ELSE "finally"
  /\ voice_log' = [voice_log EXCEPT !.slot_reads = 0, !.heard = {}]
  /\ UNCHANGED <<audio, voice_running, perception_audio, voice_actions>>

\* voice_log.perceived: the cycles so far whose _perceive returned the text
\* the listener published last; a cycle counts when the text it got is one
\* build_context reports as voice_detected (bool(audio_data))
Reports(count, text) ==
  IF text \in {NoAudio, ""} \/ count = MaxReports THEN count ELSE count + 1

\* _perceive: perception['audio'] is None unless the sensor is listening
VoicePerceive ==
  /\ voice_pc = "perceive"
  /\ IF audio.is_listening
     THEN /\ perception_audio' = audio.last_transcription
          /\ voice_log' = [voice_log EXCEPT !.slot_reads = @ + 1,
                                            !.read_when_latest = voice_log.published,
                                            !.perceived = Reports(@, audio.last_transcription)]
     ELSE /\ perception_audio' = NoAudio
          /\ UNCHANGED voice_log
  /\ voice_pc' = "decide"
  /\ UNCHANGED <<audio, voice_running, voice_actions>>

\* _decide: build_context(audio_data=perception['audio']); the engine
\* returns the voice rule's tokens or nothing
VoiceDecide ==
  /\ voice_pc = "decide"
  /\ voice_log' = [voice_log EXCEPT !.heard = @ \cup {perception_audio}]
  /\ \E list \in {<<>>, <<"parse_command", "execute_command">>} : voice_actions' = list
  /\ voice_pc' = "act"
  /\ UNCHANGED <<audio, voice_running, perception_audio>>

\* A plausible slip: the mode is changed the way start(mode) sets it, with
\* the cycle count reset.
VoiceActToken_restarts_count ==
  /\ voice_pc = "act"
  /\ voice_actions # <<>>
  /\ LET utterance == utterance_used(perception_audio, audio.last_transcription) IN
     /\ voice_log' = [voice_log EXCEPT !.heard = @ \cup {utterance}]
     /\ mode' = IF Head(voice_actions) = "execute_command"
                THEN voice_command_mode(parse_voice_command(UtteranceText(utterance)), mode)
                ELSE mode
  /\ loop_count' = IF mode' # mode THEN 0 ELSE loop_count
  /\ voice_actions' = Tail(voice_actions)
  /\ UNCHANGED <<audio, voice_pc, voice_running, perception_audio>>

\* _act: parse_command or execute_command takes the utterance;
\* execute_command resolves it and a 'follow_me' or 'explore' sets the mode
VoiceActToken ==
  /\ voice_pc = "act"
  /\ voice_actions # <<>>
  /\ LET utterance == utterance_used(perception_audio, audio.last_transcription) IN
     /\ voice_log' = [voice_log EXCEPT !.heard = @ \cup {utterance}]
     /\ mode' = IF Head(voice_actions) = "execute_command"
                THEN voice_command_mode(parse_voice_command(UtteranceText(utterance)), mode)
                ELSE mode
  /\ voice_actions' = Tail(voice_actions)
  /\ UNCHANGED <<audio, voice_pc, voice_running, perception_audio, loop_count>>

\* the rest of the cycle: _evaluate, the metrics (loop_count += 1), the sleep
VoiceCycleEnd ==
  /\ voice_pc = "act"
  /\ voice_actions = <<>>
  /\ loop_count < MaxCycles
  /\ loop_count' = loop_count + 1
  /\ voice_pc' = "loop_test"
  /\ UNCHANGED <<audio, voice_running, perception_audio, voice_actions, voice_log, mode>>

\* stop() from another thread, or start()'s finally: audio.stop()
VoiceStop ==
  /\ voice_pc # "new"
  /\ voice_running' = FALSE
  /\ audio' = audio_stop(audio)
  /\ voice_pc' = IF voice_pc = "finally" THEN "stopped" ELSE voice_pc
  /\ UNCHANGED <<perception_audio, voice_actions, voice_log>>

NextVoice ==
  \/ EnableVoiceControl /\ UNCHANGED <<rule_vars, loop_vars, context_vars, scan_vars, lexicon_vars, process_vars, act_vars, facts_vars, explain_vars>>
  \/ DisableVoiceControl /\ UNCHANGED <<rule_vars, loop_vars, context_vars, scan_vars, lexicon_vars, process_vars, act_vars, facts_vars, explain_vars>>
  \/ VoiceStart /\ UNCHANGED <<rule_vars, voice_loop_rest, context_vars, scan_vars, lexicon_vars, process_vars, act_vars, facts_vars, explain_vars>>
  \/ ListenerPublish /\ UNCHANGED <<rule_vars, loop_vars, context_vars, scan_vars, lexicon_vars, process_vars, act_vars, facts_vars, explain_vars>>
  \/ VoiceLoopTest /\ UNCHANGED <<rule_vars, loop_vars, context_vars, scan_vars, lexicon_vars, process_vars, act_vars, facts_vars, explain_vars>>
  \/ VoicePerceive /\ UNCHANGED <<rule_vars, loop_vars, context_vars, scan_vars, lexicon_vars, process_vars, act_vars, facts_vars, explain_vars>>
  \/ VoiceDecide /\ UNCHANGED <<rule_vars, loop_vars, context_vars, scan_vars, lexicon_vars, process_vars, act_vars, facts_vars, explain_vars>>
  \/ VoiceActToken /\ UNCHANGED <<rule_vars, voice_loop_rest, context_vars, scan_vars, lexicon_vars, process_vars, act_vars, facts_vars, explain_vars>>
  \/ VoiceCycleEnd /\ UNCHANGED <<rule_vars, voice_loop_rest, context_vars, scan_vars, lexicon_vars, process_vars, act_vars, facts_vars, explain_vars>>
  \/ VoiceStop /\ UNCHANGED <<rule_vars, loop_vars, context_vars, scan_vars, lexicon_vars, process_vars, act_vars, facts_vars, explain_vars>>

SpecVoice == InitFeedbackLoop /\ [][NextVoice]_vars

\* ------------------------------------------------------------------------
\* _parse_voice_command called on what the recogniser hears.
\* ------------------------------------------------------------------------
\* The number of words of a text.
WordCount(chars) ==
  IF chars = <<>> THEN 0 ELSE 1 + Cardinality({i \in 1..Len(chars) : chars[i] = " "})

\* the recogniser adds a word to the transcription
HearWord ==
  /\ WordCount(voice_text.chars) < MaxWords
  /\ \E word \in Vocabulary :
        voice_text' = Text(IF voice_text.chars = <<>> THEN word
                           ELSE voice_text.chars \o <<" ">> \o word)
  /\ parsed_command' = [done |-> FALSE, action |-> NoCommand]

\* the transcription is the empty str, or there is none
HearNothing ==
  /\ \E text \in {NoText, Text(<<>>)} : voice_text' = text
  /\ parsed_command' = [done |-> FALSE, action |-> NoCommand]

\* _parse_voice_command(voice_text)
ParseVoiceCommand ==
  /\ parsed_command' = [done |-> TRUE, action |-> parse_voice_command(voice_text)]
  /\ UNCHANGED voice_text

NextLexicon ==
  \/ HearWord /\ UNCHANGED <<rule_vars, loop_vars, context_vars, scan_vars, voice_vars, process_vars, act_vars, facts_vars, explain_vars>>
  \/ HearNothing /\ UNCHANGED <<rule_vars, loop_vars, context_vars, scan_vars, voice_vars, process_vars, act_vars, facts_vars, explain_vars>>
  \/ ParseVoiceCommand /\ UNCHANGED <<rule_vars, loop_vars, context_vars, scan_vars, voice_vars, process_vars, act_vars, facts_vars, explain_vars>>

SpecLexicon == InitFeedbackLoop /\ [][NextLexicon]_vars

\* ------------------------------------------------------------------------
\* One process, its main thread, and the FeedbackLoop instances it
\* constructs.  signal.signal() is only allowed on the main thread, and the
\* scripts of the repository call start() there too.
\* ------------------------------------------------------------------------
\* stop(): the flag is cleared; robot.cleanup(), vision.stop(), audio.stop()
stopped_loop(l) == [l EXCEPT !.is_running = FALSE, !.cleaned = TRUE]

\* FeedbackLoop(): __init__ installs this instance's _signal_handler for
\* SIGINT and SIGTERM in place of the one installed before
Construct ==
  /\ main_at = "menu"
  /\ \E i \in Instances :
        /\ ~loops[i].constructed
        /\ loops' = [loops EXCEPT ![i].constructed = TRUE]
        /\ handler' = i
  /\ UNCHANGED <<main_at, active, interrupted>>

\* start() on the main thread: initialize() fails and start() returns, or the
\* flag is set and _run_loop is entered
ProcessStart ==
  /\ main_at = "menu"
  /\ \E i \in Instances, initialized \in BOOLEAN :
        /\ loops[i].constructed
        /\ IF initialized
           THEN /\ loops' = [loops EXCEPT ![i].is_running = TRUE, ![i].cleaned = FALSE]
                /\ main_at' = "run_loop"
                /\ active' = i
           ELSE UNCHANGED <<loops, main_at, active>>
  /\ UNCHANGED <<handler, interrupted>>

\* stop() called on an instance by another thread
OtherThreadStop ==
  /\ main_at \in {"menu", "run_loop"}
  /\ \E i \in Instances :
        /\ loops[i].constructed
        /\ loops' = [loops EXCEPT ![i] = stopped_loop(@)]
  /\ UNCHANGED <<handler, main_at, active, interrupted>>

\* `while self.is_running` is false: _run_loop returns, the finally of
\* start() calls stop(), start() returns
LoopReturns ==
  /\ main_at = "run_loop"
  /\ ~loops[active].is_running
  /\ loops' = [loops EXCEPT ![active] = stopped_loop(@)]
  /\ main_at' = "menu"
  /\ active' = NoInstance
  /\ UNCHANGED <<handler, interrupted>>

\* SIGINT or SIGTERM: the installed _signal_handler runs on the main thread:
\* stop() of its instance, then sys.exit(0) raises SystemExit where the main
\* thread was
Signal ==
  /\ main_at \in {"menu", "run_loop"}
  /\ handler # NoInstance
  /\ interrupted' = IF main_at = "run_loop" /\ loops[active].is_running
                    THEN active ELSE NoInstance
  /\ loops' = [loops EXCEPT ![handler] = stopped_loop(@)]
  /\ main_at' = IF main_at = "run_loop" THEN "unwinding" ELSE "exited"
  /\ UNCHANGED <<handler, active>>

\* A plausible slip: start() has no finally, SystemExit leaves it at once.
Unwind_without_finally ==
  /\ main_at = "unwinding"
  /\ main_at' = "exited"
  /\ UNCHANGED <<loops, handler, active, interrupted>>

\* SystemExit passes the `except Exception` clauses of _run_loop and start();
\* the finally of start() calls stop() of the instance that was started
Unwind ==
  /\ main_at = "unwinding"
  /\ loops' = [loops EXCEPT ![active] = stopped_loop(@)]
  /\ main_at' = "exited"
  /\ UNCHANGED <<handler, active, interrupted>>

NextProcess ==
  \/ Construct /\ UNCHANGED <<rule_vars, loop_vars, context_vars, scan_vars, voice_vars, lexicon_vars, act_vars, facts_vars, explain_vars>>
  \/ ProcessStart /\ UNCHANGED <<rule_vars, loop_vars, context_vars, scan_vars, voice_vars, lexicon_vars, act_vars, facts_vars, explain_vars>>
  \/ OtherThreadStop /\ UNCHANGED <<rule_vars, loop_vars, context_vars, scan_vars, voice_vars, lexicon_vars, act_vars, facts_vars, explain_vars>>
  \/ LoopReturns /\ UNCHANGED <<rule_vars, loop_vars, context_vars, scan_vars, voice_vars, lexicon_vars, act_vars, facts_vars, explain_vars>>
  \/ Signal /\ UNCHANGED <<rule_vars, loop_vars, context_vars, scan_vars, voice_vars, lexicon_vars, act_vars, facts_vars, explain_vars>>
  \/ Unwind /\ UNCHANGED <<rule_vars, loop_vars, context_vars, scan_vars, voice_vars, lexicon_vars, act_vars, facts_vars, explain_vars>>

SpecProcess == InitFeedbackLoop /\ [][NextProcess]_vars

\* ------------------------------------------------------------------------
\* RuleEngine: state machine
\* ------------------------------------------------------------------------
NoContext == [f \in {} |-> 0]

NoTrail == [op |-> "other", name |-> "", before |-> <<>>]

\* Constructor tables: non-empty dicts (an empty dict selects the default
\* table), so names are distinct.
RuleTables ==
  LET Items == [name : RuleNames, enabled : BOOLEAN, data : RuleChoices]
  IN {<<x>> : x \in Items}
     \cup {t \in {<<x, y>> : x \in Items, y \in Items} : t[1].name # t[2].name}

NoCall == [op |-> "none", name |-> "", known |-> FALSE, kept |-> TRUE, level |-> ""]

InitRules ==
  /\ \E table \in {t \in RuleTables : Len(t) <= MaxRules} :
        /\ rules = parse_rules(table)
        /\ inserted = [p \in Priorities |-> OfPriority(InTableOrder(table), p)]
  /\ evaluated = FALSE
  /\ eval_ctx = NoContext
  /\ eval_result = <<>>
  /\ trail = NoTrail
  /\ rule_log = NoCall
  /\ disabled_by_call = {}

AddRule ==
  /\ Len(rules) < MaxRules
  /\ \E name \in RuleNames, c \in RuleChoices :
        /\ rules' = add_rule(rules, name, c.priority, c.conditions, c.actions)
        /\ trail' = [op |-> "add_rule", name |-> name, before |-> rules]
        /\ inserted' = [inserted EXCEPT ![c.priority] =
              Append(@, Unflagged(Rule(name, TRUE, c.priority, c.conditions, c.actions)))]
  /\ evaluated' = FALSE
  /\ eval_ctx' = NoContext
  /\ eval_result' = <<>>

RemoveRule ==
  /\ \E name \in RuleNames :
        /\ rules' = remove_rule(rules, name)
        /\ trail' = IF trail.op = "add_rule" /\ trail.name = name
                     THEN [trail EXCEPT !.op = "add_then_remove"]
                     ELSE NoTrail
        /\ inserted' = [p \in Priorities |-> SelectSeq(inserted[p], LAMBDA r : r.name # name)]
  /\ evaluated' = FALSE
  /\ eval_ctx' = NoContext
  /\ eval_result' = <<>>

EnableRule ==
  /\ \E name \in RuleNames, enable \in BOOLEAN : rules' = enable_rule(rules, name, enable)
  /\ trail' = NoTrail
  /\ UNCHANGED inserted
  /\ evaluated' = FALSE
  /\ eval_ctx' = NoContext
  /\ eval_result' = <<>>

Evaluate ==
  /\ \E context \in Contexts :
        /\ eval_ctx' = context
        /\ eval_result' = evaluate(rules, context)
  /\ evaluated' = TRUE
  /\ UNCHANGED <<rules, trail, inserted>>

NextRules ==
  \/ AddRule /\ UNCHANGED <<loop_vars, side_vars, call_vars>>
  \/ RemoveRule /\ UNCHANGED <<loop_vars, side_vars, call_vars>>
  \/ EnableRule /\ UNCHANGED <<loop_vars, side_vars, call_vars>>
  \/ Evaluate /\ UNCHANGED <<loop_vars, side_vars, call_vars>>

\* a RuleEngine after construction, the loop not started
InitRuleEngine == InitRules /\ InitLoop /\ InitSide

SpecRules == InitRuleEngine /\ [][NextRules]_vars

\* ------------------------------------------------------------------------
\* explain_decision next to evaluate: the engine with a call of
\* explain_decision on the context evaluate was last called with.
\* ------------------------------------------------------------------------
\* the side variables explain_decision leaves alone
explain_idle_vars ==
  <<context_vars, scan_vars, voice_vars, lexicon_vars, process_vars, act_vars, facts_vars>>

\* explain_decision(context), after evaluate(context)
ExplainDecision ==
  /\ evaluated
  /\ LET call == explain_decision(rules, eval_ctx) IN
     /\ rules' = call.rules
     /\ explained' = [made |-> TRUE, explanation |-> call.explanation]
  /\ UNCHANGED <<evaluated, eval_ctx, eval_result, trail, inserted, call_vars>>

\* a call that changes the rule list or evaluates a new context outdates the
\* explanation
Outdated == explained' = NoExplanation

NextExplain ==
  \/ AddRule /\ Outdated /\ UNCHANGED <<loop_vars, explain_idle_vars, call_vars>>
  \/ RemoveRule /\ Outdated /\ UNCHANGED <<loop_vars, explain_idle_vars, call_vars>>
  \/ EnableRule /\ Outdated /\ UNCHANGED <<loop_vars, explain_idle_vars, call_vars>>
  \/ Evaluate /\ Outdated /\ UNCHANGED <<loop_vars, explain_idle_vars, call_vars>>
  \/ ExplainDecision /\ UNCHANGED <<loop_vars, explain_idle_vars>>

SpecExplain == InitRuleEngine /\ [][NextExplain]_vars

\* ------------------------------------------------------------------------
\* FeedbackLoop._decide with a RuleEngine: the context is built from the
\* perception and evaluated.  loop is the FeedbackLoop (its mode and its
\* engine's rules), perception the dict _perceive returned.
\* ------------------------------------------------------------------------
\* build_context: obstacle_distance and voice_detected (True == 1)
decide_context(perception) ==
  [f \in Facts |->
     IF f = "obstacle_distance" THEN perception.distance
     ELSE IF perception.audio # NoAudio /\ perception.audio # "" THEN 1 ELSE 0]

\* A plausible slip: in voice-control mode nothing is decided without a voice.
decide_gated_by_mode(loop, perception) ==
  IF loop.mode = "voice_control" /\ decide_context(perception)["voice_detected"] = 0
  THEN <<>>
  ELSE evaluate(loop.rules, decide_context(perception))

\* _decide
decide(loop, perception) == evaluate(loop.rules, decide_context(perception))

\* start(mode) and _set_mode(mode): self.mode = mode
SetMode ==
  /\ \E m \in LoopModes : mode' = m
  /\ UNCHANGED <<pc, is_running, loop_count, avg_loop_time, loop_start, actions,
                 actions_is_none, robot, vision_running, audio_running, now, exiting,
                 motion_began, safety_verdict, stop_called, init_failed, recovered,
                 cycle_log>>
  /\ UNCHANGED <<rule_vars, side_vars>>

\* _decide(perception) on the loop as it is
DecideCall ==
  /\ \E audio_data \in {NoAudio, ""} \cup Utterances, distance \in FactValues("obstacle_distance") :
        LET perception == [audio |-> audio_data, distance |-> distance] IN
        /\ perception_audio' = audio_data
        /\ eval_ctx' = decide_context(perception)
        /\ eval_result' = decide([mode |-> mode, rules |-> rules], perception)
  /\ evaluated' = TRUE
  /\ UNCHANGED <<rules, trail, inserted, call_vars, loop_vars, context_vars, scan_vars,
                 lexicon_vars, process_vars, act_vars, facts_vars, explain_vars, audio, voice_pc, voice_running, voice_actions, voice_log>>

NextDecide ==
  \/ SetMode
  \/ DecideCall
  \/ EnableRule /\ UNCHANGED <<loop_vars, side_vars, call_vars>>

SpecDecide == InitRuleEngine /\ [][NextDecide]_vars

\* ------------------------------------------------------------------------
\* RuleEngine: the mutator calls with what each finds and logs.
\* ------------------------------------------------------------------------
CallAddRule ==
  /\ Len(rules) < MaxRules
  /\ \E name \in RuleNames, c \in RuleChoices :
        /\ rules' = add_rule(rules, name, c.priority, c.conditions, c.actions)
        /\ inserted' = [inserted EXCEPT ![c.priority] =
              Append(@, Unflagged(Rule(name, TRUE, c.priority, c.conditions, c.actions)))]
        /\ rule_log' = [op |-> "add_rule", name |-> name, known |-> name \in NamesOf(rules),
                        kept |-> rules' = rules, level |-> add_rule_log(rules, name)]
  /\ UNCHANGED <<evaluated, eval_ctx, eval_result, trail, disabled_by_call>>

CallRemoveRule ==
  /\ \E name \in RuleNames :
        /\ rules' = remove_rule(rules, name)
        /\ inserted' = [p \in Priorities |-> SelectSeq(inserted[p], LAMBDA r : r.name # name)]
        /\ rule_log' = [op |-> "remove_rule", name |-> name,
                        known |-> name \in NamesOf(rules), kept |-> rules' = rules,
                        level |-> remove_rule_log(rules, name)]
        /\ disabled_by_call' = disabled_by_call \ {name}
  /\ UNCHANGED <<evaluated, eval_ctx, eval_result, trail>>

CallEnableRule ==
  /\ \E name \in RuleNames, enable \in BOOLEAN :
        /\ rules' = enable_rule(rules, name, enable)
        /\ rule_log' = [op |-> IF enable THEN "enable_rule" ELSE "disable_rule",
                        name |-> name, known |-> name \in NamesOf(rules),
                        kept |-> rules' = rules, level |-> enable_rule_log(rules, name)]
        /\ disabled_by_call' =
              IF name \notin NamesOf(rules) THEN disabled_by_call
              ELSE IF enable THEN disabled_by_call \ {name}
              ELSE disabled_by_call \cup {name}
  /\ UNCHANGED <<evaluated, eval_ctx, eval_result, trail, inserted>>

NextRuleCalls ==
  \/ CallAddRule /\ UNCHANGED <<loop_vars, side_vars>>
  \/ CallRemoveRule /\ UNCHANGED <<loop_vars, side_vars>>
  \/ CallEnableRule /\ UNCHANGED <<loop_vars, side_vars>>

SpecRuleCalls == InitRuleEngine /\ [][NextRuleCalls]_vars

\* ------------------------------------------------------------------------
\* RuleEngine: one evaluate() on the loop thread next to one mutator call on
\* another thread.  A step is what happens between two thread switches.
\* ------------------------------------------------------------------------
\* The list object the iterator of evaluate() walks.
ScannedList == IF scan.detached THEN scan.items ELSE rules

\* evaluate: `for rule in self.rules` takes an iterator of the list object
\* self.rules is bound to
EvalBegin ==
  /\ ~evaluated
  /\ ~scan.active
  /\ \E context \in Contexts : eval_ctx' = context
  /\ scan' = [active |-> TRUE, index |-> 1, detached |-> FALSE, items |-> <<>>]
  /\ UNCHANGED <<rules, evaluated, eval_result, trail, mutation>>

\* evaluate: one pass of the for loop; the iterator ends when its index is
\* beyond the list as it is now
EvalStep ==
  /\ scan.active
  /\ IF scan.index > Len(ScannedList)
     THEN /\ eval_result' = <<>>
          /\ evaluated' = TRUE
          /\ scan' = NoScan
     ELSE LET rule == ScannedList[scan.index] IN
          IF rule.enabled /\ evaluate_conditions(rule.conditions, eval_ctx)
          THEN /\ eval_result' = rule.actions
               /\ evaluated' = TRUE
               /\ scan' = NoScan
          ELSE /\ scan' = [scan EXCEPT !.index = scan.index + 1]
               /\ UNCHANGED <<eval_result, evaluated>>
  /\ UNCHANGED <<rules, eval_ctx, trail, mutation>>

\* add_rule: self.rules.append(rule)
MutAddAppend ==
  /\ mutation.op = "none"
  /\ ~evaluated
  /\ Len(rules) < MaxRules
  /\ \E name \in RuleNames, c \in RuleChoices :
        /\ rules' = Append(rules, Rule(name, TRUE, c.priority, c.conditions, c.actions))
        /\ mutation' = [op |-> "add_rule", stage |-> "appended", before |-> rules,
                        after |-> add_rule(rules, name, c.priority, c.conditions, c.actions),
                        saved |-> <<>>]
  /\ UNCHANGED <<evaluated, eval_ctx, eval_result, trail, scan>>

\* add_rule: self.rules.sort(key=lambda ...) begins.  CPython's list.sort
\* takes the items out of the list object, which is empty to every reader
\* while the key function and the comparisons run.
MutAddSortBegin ==
  /\ mutation.stage = "appended"
  /\ rules' = <<>>
  /\ mutation' = [mutation EXCEPT !.stage = "sorting", !.saved = rules]
  /\ UNCHANGED <<evaluated, eval_ctx, eval_result, trail, scan>>

\* add_rule: the sort ends and puts the items back, in order
MutAddSortEnd ==
  /\ mutation.stage = "sorting"
  /\ rules' = sort_by_priority(mutation.saved)
  /\ mutation' = [mutation EXCEPT !.stage = "done", !.saved = <<>>]
  /\ UNCHANGED <<evaluated, eval_ctx, eval_result, trail, scan>>

\* remove_rule: self.rules is bound to a new list; an iterator in flight
\* keeps the old list object
MutRemove ==
  /\ mutation.op = "none"
  /\ ~evaluated
  /\ \E name \in RuleNames :
        /\ rules' = remove_rule(rules, name)
        /\ mutation' = [op |-> "remove_rule", stage |-> "done", before |-> rules,
                        after |-> remove_rule(rules, name), saved |-> <<>>]
  /\ scan' = IF scan.active /\ ~scan.detached
             THEN [scan EXCEPT !.detached = TRUE, !.items = rules]
             ELSE scan
  /\ UNCHANGED <<evaluated, eval_ctx, eval_result, trail>>

\* enable_rule: one rule object's flag is assigned, in place
MutEnable ==
  /\ mutation.op = "none"
  /\ ~evaluated
  /\ \E name \in RuleNames, enable \in BOOLEAN :
        /\ rules' = enable_rule(rules, name, enable)
        /\ mutation' = [op |-> "enable_rule", stage |-> "done", before |-> rules,
                        after |-> enable_rule(rules, name, enable), saved |-> <<>>]
  /\ UNCHANGED <<evaluated, eval_ctx, eval_result, trail, scan>>

NextConcurrent ==
  \/ EvalBegin /\ UNCHANGED <<loop_vars, context_vars, voice_vars, lexicon_vars, process_vars, act_vars, facts_vars, explain_vars, inserted, call_vars>>
  \/ EvalStep /\ UNCHANGED <<loop_vars, context_vars, voice_vars, lexicon_vars, process_vars, act_vars, facts_vars, explain_vars, inserted, call_vars>>
  \/ MutAddAppend /\ UNCHANGED <<loop_vars, context_vars, voice_vars, lexicon_vars, process_vars, act_vars, facts_vars, explain_vars, inserted, call_vars>>
  \/ MutAddSortBegin /\ UNCHANGED <<loop_vars, context_vars, voice_vars, lexicon_vars, process_vars, act_vars, facts_vars, explain_vars, inserted, call_vars>>
  \/ MutAddSortEnd /\ UNCHANGED <<loop_vars, context_vars, voice_vars, lexicon_vars, process_vars, act_vars, facts_vars, explain_vars, inserted, call_vars>>
  \/ MutRemove /\ UNCHANGED <<loop_vars, context_vars, voice_vars, lexicon_vars, process_vars, act_vars, facts_vars, explain_vars, inserted, call_vars>>
  \/ MutEnable /\ UNCHANGED <<loop_vars, context_vars, voice_vars, lexicon_vars, process_vars, act_vars, facts_vars, explain_vars, inserted, call_vars>>

SpecConcurrent == InitRuleEngine /\ [][NextConcurrent]_vars

\* ------------------------------------------------------------------------
\* RuleEngine: properties
\* ------------------------------------------------------------------------
\* What it means for a predicate to hold of a fact value.
PredicateHolds(p, v) ==
  \/ ~p.is_tuple /\ v = p.threshold
  \/ p.is_tuple /\ p.op_str = ">" /\ v > p.threshold
  \/ p.is_tuple /\ p.op_str = "<" /\ v < p.threshold
  \/ p.is_tuple /\ p.op_str = ">=" /\ v >= p.threshold
  \/ p.is_tuple /\ p.op_str = "<=" /\ v <= p.threshold
  \/ p.is_tuple /\ p.op_str = "==" /\ v = p.threshold
  \/ p.is_tuple /\ p.op_str = "!=" /\ v # p.threshold

\* Every condition of rule r holds against context c (AND semantics).
FullyMatches(r, c) ==
  \A k \in DOMAIN r.conditions : k \in DOMAIN c /\ PredicateHolds(r.conditions[k], c[k])

\* Indices of the enabled rules that fully match c.
Candidates(rs, c) == {i \in 1..Len(rs) : rs[i].enabled /\ FullyMatches(rs[i], c)}

\* Rule r has a condition keyed on a fact that context c lacks.
HasMissingFact(r, c) == \E k \in DOMAIN r.conditions : k \notin DOMAIN c

\* C1: evaluate(context) returns the action list of an enabled, fully
\* matching rule that no other enabled, fully matching rule outranks, and the
\* empty list when no enabled rule fully matches; the result is one rule's
\* action list, never a combination.
C1_EvaluateHighestPriority ==
  evaluated =>
    IF Candidates(rules, eval_ctx) = {}
    THEN eval_result = <<>>
    ELSE \E i \in Candidates(rules, eval_ctx) :
            /\ \A j \in Candidates(rules, eval_ctx) : rules[j].priority <= rules[i].priority
            /\ eval_result = rules[i].actions

\* C1 witness: evaluate ran on a list where a disabled rule and two enabled
\* rules of different priority all match, or nothing matched.
C1_Witness ==
  /\ evaluated
  /\ \E i, j \in Candidates(rules, eval_ctx) :
        /\ rules[i].priority > rules[j].priority
        /\ eval_result = rules[i].actions
        /\ eval_result # rules[j].actions

\* C1 witness for the headed-off case: a disabled rule that outranks the
\* winner and fully matches.
C1_WitnessDisabled ==
  /\ evaluated
  /\ Len(rules) = 2
  /\ ~rules[1].enabled /\ FullyMatches(rules[1], eval_ctx)
  /\ rules[2].enabled /\ FullyMatches(rules[2], eval_ctx)
  /\ rules[1].priority > rules[2].priority
  /\ eval_result = rules[2].actions

\* C2: the rule list is sorted by priority, descending, in every state
\* reached by the constructor and the mutators.
C2_SortedByPriority ==
  \A i, j \in 1..Len(rules) : i < j => rules[i].priority >= rules[j].priority

\* C2 witness: add_rule has inserted a rule in front of a lower-priority rule
\* of the same name (two rules of one name only come from add_rule).
C2_Witness ==
  /\ Len(rules) = 2
  /\ rules[1].name = rules[2].name
  /\ rules[1].priority > rules[2].priority

\* C3: a rule with a condition keyed on a fact absent from the context never
\* matches, whatever the predicate form, and evaluate never returns its
\* actions.
C3_MissingFactNeverMatches ==
  /\ \A i \in 1..Len(rules) : \A c \in Contexts :
        HasMissingFact(rules[i], c) => ~evaluate_conditions(rules[i].conditions, c)
  /\ evaluated =>
        \A i \in 1..Len(rules) :
           HasMissingFact(rules[i], eval_ctx) => eval_result # rules[i].actions

\* C3 witness: evaluate ran with voice_detected absent on an enabled rule
\* whose '!=' condition is keyed on it and whose other condition holds.
C3_Witness ==
  /\ evaluated
  /\ DOMAIN eval_ctx = {"obstacle_distance"}
  /\ \E i \in 1..Len(rules) :
        /\ rules[i].enabled
        /\ DOMAIN rules[i].conditions = Facts
        /\ rules[i].conditions["voice_detected"].op_str = "!="
        /\ PredicateHolds(rules[i].conditions["obstacle_distance"],
                          eval_ctx["obstacle_distance"])
        /\ eval_result # rules[i].actions

\* C4: add_rule(name, ...) immediately followed by remove_rule(name) leaves
\* evaluate(context) as it was before the add_rule, for every name, also one
\* already in the rule list, and every context.
C4_AddRemoveRoundTrip ==
  trail.op = "add_then_remove" =>
     \A context \in Contexts : evaluate(rules, context) = evaluate(trail.before, context)

\* ------------------------------------------------------------------------
\* RobotController and FeedbackLoop: properties
\* ------------------------------------------------------------------------
\* The reading check_safety took lies strictly between 0 and the emergency
\* distance.
EmergencyReading ==
  0 < robot.last_distance /\ robot.last_distance < emergency_stop_distance

\* C5: when _evaluate has run check_safety on a distance strictly between 0
\* and emergency_stop_distance, the robot is STOPPED with speed 0 and the
\* result is unsafe, whatever was decided and executed in the cycle.
C5_EmergencyStop ==
  (pc = "metrics" /\ EmergencyReading) =>
     /\ safety_verdict = "unsafe"
     /\ robot.current_state = "stopped"
     /\ robot.current_speed = 0
     /\ robot.movement_start_time = NoTime

\* C5 witness: a cycle of a running loop whose check_safety read 5 cm.
C5_Witness ==
  /\ pc = "metrics"
  /\ is_running
  /\ robot.is_initialized
  /\ robot.last_distance = 5
  /\ safety_verdict = "unsafe"
  /\ robot.current_state = "stopped"

\* The robot has been moving without a stop for longer than
\* max_continuous_movement.
MovingTooLong ==
  /\ robot.current_speed > 0
  /\ motion_began # NoTime
  /\ now - motion_began > max_continuous_movement

\* C6: check_safety never returns leaving the robot in a motion that has
\* lasted longer than max_continuous_movement since it began, also when the
\* move command was issued again in between.
C6_WatchdogStopsLongMotion ==
  safety_verdict # "none" => ~MovingTooLong

\* C7: when the next iteration of the loop is about to begin, the iteration
\* before it has executed check_safety, also when one of its phases raised.
C7_SafetyCheckedEveryCycle ==
  (pc = "loop_test" /\ (loop_count > 0 \/ recovered)) => safety_verdict # "none"

\* C8: a phase that raises leaves is_running, loop_count and avg_loop_time
\* as they are; the recovery pause lasts exactly recovery_pause and changes
\* none of them either; and the loop test after it, with the loop still
\* running, begins the next cycle.
C8_ExceptionRecovery ==
  [][ /\ (pc \in {"perceive", "decide", "act", "evaluate"} /\ pc' = "recover") =>
            UNCHANGED <<is_running, loop_count, avg_loop_time>>
      /\ (pc = "recover" /\ pc' = "loop_test") =>
            /\ now' = now + recovery_pause
            /\ UNCHANGED <<is_running, loop_count, avg_loop_time>>
      /\ (pc = "recover" /\ is_running') => pc' \in {"recover", "loop_test"}
      /\ (pc = "loop_test" /\ recovered /\ is_running /\ is_running') =>
            /\ pc' = "perceive"
            /\ loop_start' = now
            /\ UNCHANGED <<loop_count, avg_loop_time>>
    ]_vars

\* C8 witness: the cycle after a recovery pause has gone through all four
\* phases, the loop still running and the counter where it was.
C8_Witness ==
  /\ recovered
  /\ pc = "metrics"
  /\ is_running
  /\ loop_count = 0
  /\ now >= recovery_pause

\* C9: outside start() not running the loop, is_running is false only after
\* stop() was called, and the loop is left only with stop() called.
C9_OnlyStopEndsLoop ==
  /\ (pc # "idle" /\ ~is_running) => stop_called
  /\ pc \in {"finally", "exited"} => stop_called

\* C9 witness: a counted cycle ended with a safety veto and the loop is
\* about to begin the next one.
C9_Witness ==
  /\ pc = "loop_test"
  /\ is_running
  /\ ~stop_called
  /\ loop_count >= 1
  /\ safety_verdict = "unsafe"

\* C10: a start() in which the robot or the vision sensor fails leaves the
\* loop not running, executes no cycle and leaves loop_count alone; a
\* start() in which both come up enters the loop, whatever audio does.
C10_InitFailureNeverRuns ==
  [][ pc = "idle" =>
        /\ init_failed' => (pc' = "idle" /\ ~is_running' /\ loop_count' = loop_count)
        /\ ~init_failed' => (pc' = "loop_test" /\ is_running' /\ vision_running')
    ]_vars

\* C10 witness: start() failed on the vision sensor after an earlier run
\* that counted a cycle.
C10_Witness ==
  /\ init_failed
  /\ pc = "idle"
  /\ ~is_running
  /\ robot.is_initialized
  /\ ~vision_running
  /\ loop_count >= 1

\* C10, the audio case: the loop is running without audio.
C10_WitnessAudio ==
  /\ pc = "perceive"
  /\ is_running
  /\ ~stop_called
  /\ vision_running
  /\ ~audio_running

\* C11: a start() that failed to initialize and a start() that ran the loop
\* never give their callers the same result.
C11_StartReportsFailure ==
  (pc = "idle" /\ init_failed) => start_result # RanLoopResult

\* Where the loop thread is while a cycle is in flight.
InCycle == {"perceive", "decide", "act", "evaluate", "metrics"}

\* C12: a stop() called while a cycle is in flight leaves the loop thread
\* where it is; with the flag cleared the cycle in flight still goes on
\* through its phases to the loop test; and no cycle begins with the flag
\* cleared.
C12_StopIsCooperative ==
  [][ /\ (pc \in InCycle /\ is_running /\ ~is_running') => pc' = pc
      /\ (pc \in InCycle /\ ~is_running) => pc' \in InCycle \cup {"recover", "loop_test"}
      /\ (pc # "perceive" /\ pc' = "perceive") => is_running
    ]_vars

\* The phases of a cycle, in the order _run_loop calls them.
CycleOrder == <<"perceive", "decide", "act", "evaluate">>

\* C13: the phases the cycle in flight has entered are an initial part of
\* perceive, decide, act, evaluate, each entered once and the loop thread in
\* the last of them; a cycle that reaches the metrics has entered all four.
C13_OneDecideOneActInOrder ==
  /\ Len(phases_done) <= Len(CycleOrder)
  /\ \A i \in 1..Len(phases_done) : phases_done[i] = CycleOrder[i]
  /\ pc \in {"perceive", "decide", "act", "evaluate"} =>
        (phases_done # <<>> /\ phases_done[Len(phases_done)] = pc)
  /\ pc = "metrics" => phases_done = CycleOrder
  /\ pc \in {"idle", "loop_test", "finally", "exited"} => phases_done = <<>>

\* C13 witness: the second cycle of a run has gone through its four phases.
C13_Witness ==
  /\ pc = "metrics"
  /\ is_running
  /\ loop_count >= 1
  /\ phases_done = CycleOrder

\* The sum of a sequence of durations.
RECURSIVE SumSeq(_)
SumSeq(q) == IF q = <<>> THEN 0 ELSE Head(q) + SumSeq(Tail(q))

\* C14: loop_count is the number of cycles of this run that completed, and
\* once one has, avg_loop_time is the arithmetic mean of their durations,
\* whatever average an earlier run left behind.
C14_MetricsAreTheMean ==
  /\ loop_count = Len(run_durations)
  /\ Len(run_durations) >= 1 =>
        avg_loop_time.num * Len(run_durations) = SumSeq(run_durations) * avg_loop_time.den

\* C14 witness: two cycles of different durations have completed in a run.
C14_Witness ==
  /\ pc = "loop_test"
  /\ loop_count = 2
  /\ Len(run_durations) = 2
  /\ run_durations[1] # run_durations[2]
  /\ avg_loop_time.num > 0

\* C14, the restart case: the first cycle of a run is about to be counted
\* while avg_loop_time still holds the average of an earlier run, which is
\* not the duration of this cycle.
C14_WitnessRestart ==
  /\ pc = "metrics"
  /\ loop_count = 0
  /\ avg_loop_time.num > 0
  /\ avg_loop_time # Fraction(now - loop_start, 1)

\* C15: loop_count never decreases on one instance, in particular not
\* across a stop() and a later start().
C15_CycleCountNeverDecreases ==
  [][loop_count' >= loop_count]_vars

\* C16: a decide call in which the reasoner has no client, the backend call
\* fails or the reply is malformed hands _act the empty list, and the act
\* pass that follows executes nothing and does not raise.
C16_ReasonerFaultGivesEmptyList ==
  llm_fault # "none" => (pc = "act" /\ ~actions_is_none /\ actions = <<>>)


\* C17: a build_context call with a stimulus returns idle_time 0; a call
\* without one returns an idle_time not below the one returned before, equal
\* to the time since the last call with a stimulus once there has been one.
C17_IdleTime ==
  [][ context_at' # NoTime /\ now' = now =>
        /\ Stimulus(built_context') => built_context'.idle_time = 0
        /\ ~Stimulus(built_context') => built_context'.idle_time >= built_context.idle_time
        /\ (~Stimulus(built_context') /\ stimulus_at' # NoTime) =>
              built_context'.idle_time = now' - stimulus_at'
    ]_vars

\* C17 witness: a call without stimulus, three ticks after the last call
\* that had one.
C17_Witness ==
  /\ context_at = now
  /\ ~Stimulus(built_context)
  /\ stimulus_at # NoTime
  /\ built_context.idle_time = 3
  /\ last_activity_time = time_time(stimulus_at)

\* C18: an evaluate() that ran next to one add_rule, remove_rule or
\* enable_rule call returns what it returns on the rule list before that
\* call or on the rule list after it.
C18_EvaluateSeesBeforeOrAfter ==
  (evaluated /\ mutation.op # "none") =>
     \/ eval_result = evaluate(mutation.before, eval_ctx)
     \/ eval_result = evaluate(mutation.after, eval_ctx)

\* C19: a cycle reads last_transcription at most once, and only as the
\* value the listener published last; without a read perception['audio'] is
\* None; and context building, parse_command and execute_command of the
\* cycle all take the value read, whatever was published since.
C19_TranscriptionReadOncePerCycle ==
  /\ voice_log.slot_reads <= 1
  /\ audio.last_transcription = voice_log.published
  /\ voice_pc \in {"decide", "act"} =>
        /\ voice_log.heard \subseteq {perception_audio}
        /\ voice_log.slot_reads = 0 => perception_audio = NoAudio
        /\ voice_log.slot_reads = 1 => perception_audio = voice_log.read_when_latest

\* C19 witness: parse_command and execute_command have run on "forward", the
\* value the cycle read, after the listener published "follow me".
C19_Witness ==
  /\ voice_pc = "act"
  /\ voice_actions = <<>>
  /\ voice_log.slot_reads = 1
  /\ perception_audio = "forward"
  /\ audio.last_transcription = "follow me"
  /\ voice_log.heard = {"forward"}

\* C20: a loop that enable_voice_control() was called on before start() is,
\* once running with its audio sensor started, listening.
C20_VoiceControlListens ==
  (voice_log.requested /\ voice_running /\ audio.is_running /\ voice_pc = "perceive")
     => audio.is_listening

\* C21: enable_rule and remove_rule called with a name that no rule of the
\* list has leave the list as it was and log a warning, a record that a
\* successful call does not log.
C21_UnknownNameIsReported ==
  (rule_log.op \in {"enable_rule", "disable_rule", "remove_rule"} /\ ~rule_log.known)
     => (rule_log.kept /\ rule_log.level = "warning")

\* C22: no two rules of the list have the same name.
C22_NamesAreUnique ==
  \A i, j \in 1..Len(rules) : i # j => rules[i].name # rules[j].name

\* C25: after enable_rule(name, False) has found a rule of that name, and
\* until enable_rule(name, True) or remove_rule(name), evaluate returns for
\* every context what it returns on the list without the rules of that name;
\* and an enable_rule call changes nothing but the enabled flag of one rule
\* of that name.
C25_DisabledRuleStaysOut ==
  [][/\ \A name \in disabled_by_call' : \A context \in Contexts :
           evaluate(rules', context) = evaluate(remove_rule(rules', name), context)
     /\ rule_log'.op \in {"enable_rule", "disable_rule"} =>
           /\ Len(rules') = Len(rules)
           /\ \A i \in 1..Len(rules) :
                 /\ Unflagged(rules'[i]) = Unflagged(rules[i])
                 /\ rules'[i].enabled # rules[i].enabled => rules[i].name = rule_log'.name
           /\ Cardinality({i \in 1..Len(rules) : rules'[i].enabled # rules[i].enabled}) <= 1
    ]_vars

\* C26: of two rules of the same priority the one inserted earlier, by the
\* constructor's table or by add_rule, comes first in the rule list.
C26_TiesKeepInsertionOrder ==
  \A p \in Priorities : OfPriority(rules, p) = inserted[p]

\* C26 witness: add_rule has just added a rule of the priority of the one
\* rule in the list, under another name, and it stands behind that rule.
C26_Witness ==
  /\ trail.op = "add_rule"
  /\ Len(trail.before) = 1
  /\ Len(rules) = 2
  /\ rules[1] = trail.before[1]
  /\ rules[2].name = trail.name
  /\ rules[2].name # rules[1].name
  /\ rules[2].priority = rules[1].priority
  /\ rules[2].actions # rules[1].actions

\* C26 witness for the constructor: two table entries of one priority stand
\* in table order before any mutator call.
C26_WitnessTable ==
  /\ trail = NoTrail
  /\ ~evaluated
  /\ Len(rules) = 2
  /\ rules[1].priority = rules[2].priority
  /\ rules[1].actions # rules[2].actions
  /\ inserted[rules[1].priority] = <<Unflagged(rules[1]), Unflagged(rules[2])>>

\* Command i of the lexicon has a phrase that occurs in the text, letter
\* case apart.
PhraseOccurs(i, text) ==
  \E k \in 1..Len(VOICE_COMMANDS[i].keywords) :
     LET phrase == VOICE_COMMANDS[i].keywords[k] IN
     \E off \in 0..(Len(text) - Len(phrase)) :
        \A j \in 1..Len(phrase) : lower_char(text[off + j]) = lower_char(phrase[j])

\* C23: the command resolved for a transcription is the first command of the
\* lexicon, in its order, one of whose phrases occurs in the transcription
\* letter case apart; it is no command when there is none, and when the
\* transcription is empty or absent.
C23_FirstMatchingCommand ==
  parsed_command.done =>
     LET matching == {i \in 1..Len(VOICE_COMMANDS) : PhraseOccurs(i, voice_text.chars)} IN
     IF voice_text.is_none \/ voice_text.chars = <<>> \/ matching = {}
     THEN parsed_command.action = NoCommand
     ELSE \E i \in matching :
             /\ \A j \in matching : i <= j
             /\ parsed_command.action = VOICE_COMMANDS[i].action

\* C23 witness: "look LEFT" holds a phrase of left and one of look_left in
\* other letter case, and resolves to left, the earlier command.
C23_Witness ==
  /\ parsed_command.done
  /\ voice_text = Text(<<"l", "o", "o", "k", " ", "L", "E", "F", "T">>)
  /\ PhraseOccurs(2, voice_text.chars)
  /\ PhraseOccurs(6, voice_text.chars)
  /\ parsed_command.action = "left"

\* C23 witness for the empty and the absent transcription.
C23_WitnessEmpty ==
  /\ parsed_command.done
  /\ voice_text.chars = <<>>
  /\ parsed_command.action = NoCommand

\* C24: the decide phase returns the same action list in every mode: on
\* loops that differ in nothing but the mode, the same perception gives the
\* list the call returned.
C24_ModeDoesNotGateRules ==
  evaluated =>
     \A m \in LoopModes :
        decide([mode |-> m, rules |-> rules],
               [audio |-> perception_audio, distance |-> eval_ctx["obstacle_distance"]])
          = eval_result

\* C24 witness: in voice-control mode, with no voice, a rule fired.
C24_Witness ==
  /\ evaluated
  /\ mode = "voice_control"
  /\ perception_audio = NoAudio
  /\ eval_ctx["voice_detected"] = 0
  /\ eval_result # <<>>

C28_UnsafeVerdictOnlyStopsMotion ==
  [][/\ (pc = "evaluate" /\ safety_verdict' = "unsafe") =>
           /\ pc' = "metrics"
           /\ is_running' = is_running
           /\ mode' = mode
           /\ loop_count' = loop_count
     /\ (pc = "metrics" /\ safety_verdict = "unsafe" /\ pc' # pc /\ ~exiting') =>
           /\ pc' = "loop_test"
           /\ loop_count' = loop_count + 1
           /\ is_running' = is_running
           /\ mode' = mode
     /\ (pc = "loop_test" /\ safety_verdict = "unsafe" /\ is_running /\ pc' # pc
           /\ ~exiting') => pc' = "perceive"
    ]_vars

\* C28 witness: a cycle of a loop started in tracking mode got an unsafe
\* verdict, which stopped the robot, and was counted; the loop is still
\* running in tracking mode and is about to begin the next cycle.
C28_Witness ==
  /\ pc = "loop_test"
  /\ safety_verdict = "unsafe"
  /\ is_running
  /\ mode = "tracking"
  /\ loop_count = 1
  /\ Len(run_durations) = 1
  /\ robot.current_speed = 0
  /\ ~stop_called

\* C29: a voice command that changes the mode while the loop runs changes
\* nothing else: the loop is still running and in the same place of its
\* cycle, and the cycle count, the rule list with its enabled flags and the
\* audio sensor are as they were.
C29_ModeChangeOnlyChangesMode ==
  [][(voice_pc = "act" /\ mode' # mode) =>
        /\ voice_pc' = "act"
        /\ voice_running' = voice_running
        /\ loop_count' = loop_count
        /\ rules' = rules
        /\ audio' = audio
    ]_vars

\* C29 witness: a loop started in voice-control mode has counted a cycle,
\* then executed 'follow me' and is running in tracking mode, its count and
\* its five rules in place.
C29_Witness ==
  /\ voice_pc = "act"
  /\ voice_actions = <<>>
  /\ voice_running
  /\ voice_log.started_mode = "voice_control"
  /\ perception_audio = "follow me"
  /\ mode = "tracking"
  /\ loop_count = 1
  /\ Len(rules) = 5

\* the tokens of a list of dispatch records
Tokens(dispatched) == [i \in 1..Len(dispatched) |-> dispatched[i].token]

\* C30: _act takes the tokens of the decided list one at a time and in
\* their order: what was dispatched followed by what remains is the decided
\* list.  A token without a branch leaves a warning or an error in the log,
\* and neither it nor a token that raised ends the phase: the phase is left
\* for _evaluate with every token dispatched, and the only act phase that
\* ends in the except branch of the loop is the one handed None.
C30_TokensDispatchedInOrder ==
  /\ (pc \in {"act", "evaluate", "metrics"} /\ ~actions_is_none) =>
        /\ Tokens(act_log.dispatched) \o actions = act_log.decided
        /\ \A i \in 1..Len(act_log.dispatched) :
              act_log.dispatched[i].token \notin KnownActions =>
                 act_log.dispatched[i].level \in {"warning", "error"}
  /\ pc \in {"evaluate", "metrics"} => actions = <<>>
  /\ (pc = "recover" /\ phases_done # <<>> /\ phases_done[Len(phases_done)] = "act") =>
        llm_fault = "actions_null"

\* C30 witness: the list with an unknown first token was dispatched whole,
\* the unknown token with a warning and the token after it with an error,
\* and the cycle has gone on to its metrics.
C30_Witness ==
  /\ pc = "metrics"
  /\ act_log.decided = <<"bogus", "move_backward">>
  /\ act_log.dispatched = << [token |-> "bogus", level |-> "warning"],
                             [token |-> "move_backward", level |-> "error"] >>
  /\ safety_verdict \in {"safe", "unsafe"}

\* C31: in a cycle whose decision is the empty list the act phase dispatches
\* nothing and leaves the robot as it was, _evaluate runs the safety check
\* all the same, and the metrics count the cycle: cycle count plus one, the
\* average updated with the cycle's duration.
C31_EmptyDecisionCycleCompletes ==
  [][(act_log.decided = <<>> /\ ~actions_is_none /\ pc \in {"act", "evaluate", "metrics"}) =>
        /\ act_log.dispatched = <<>>
        /\ (pc = "act" /\ pc' \notin {"act", "finally"}) =>
              (pc' = "evaluate" /\ robot' = robot)
        /\ pc = "metrics" => safety_verdict \in {"safe", "unsafe"}
        /\ (pc = "metrics" /\ pc' = "loop_test") =>
              /\ loop_count' = loop_count + 1
              /\ avg_loop_time' = running_average(avg_loop_time, loop_count + 1, now - loop_start)
    ]_vars

\* C31 witness: the second cycle of a run decided the empty list, dispatched
\* nothing, was found safe and is about to be counted.
C31_Witness ==
  /\ pc = "metrics"
  /\ is_running
  /\ loop_count = 1
  /\ act_log = NoActLog
  /\ llm_fault = "none"
  /\ safety_verdict = "safe"

\* C32: after a completed cycle the loop sleeps max(0, period - elapsed): a
\* cycle shorter than the period is followed by the loop test one period
\* after the cycle's own start, a cycle that took the period or longer is
\* followed by it at once; the next cycle starts at the time of that test,
\* and it is one cycle, counted once.
C32_SleepsToEndOfPeriod ==
  [][/\ (pc = "metrics" /\ pc' = "loop_test") =>
          /\ now' = IF now - loop_start < loop_period
                    THEN loop_start + loop_period
                    ELSE now
          /\ loop_count' = loop_count + 1
     /\ (pc = "loop_test" /\ pc' = "perceive") =>
          /\ loop_start' = now
          /\ now' = now
          /\ loop_count' = loop_count
    ]_vars

\* C32 witness: a first cycle overran the period by a tick and the loop is at
\* its test with no time slept.
C32_Witness ==
  /\ pc = "loop_test"
  /\ is_running
  /\ run_durations = <<loop_period + 1>>
  /\ now = loop_start + loop_period + 1
  /\ loop_count = 1

\* the list a frame holds under a key is there and not empty
Detected(vision_data, key) == key \in DOMAIN vision_data /\ vision_data[key] # <<>>

\* C33: the context of a build_context call has each *_detected flag true
\* exactly when the frame's list is non-empty, color_size the width times
\* the height of the first colour region and 0 without one, voice_detected
\* true exactly for a non-empty transcription, has_obstacle true exactly for
\* a distance strictly between 0 and the threshold, is_moving true exactly
\* for a speed above 0: all of it from the inputs of that call, whatever the
\* calls before it were.
C33_FactsFromInputs ==
  decide_call.made =>
    LET v == decide_call.inputs.vision_data
        c == decide_call.context
        distance == decide_call.inputs.distance
        robot_state == decide_call.inputs.robot_state
    IN /\ (c["face_detected"] = 1) <=> Detected(v, "faces")
       /\ (c["color_detected"] = 1) <=> Detected(v, "colors")
       /\ (c["qr_detected"] = 1) <=> Detected(v, "qr_codes")
       /\ (c["gesture_detected"] = 1) <=> Detected(v, "gestures")
       /\ (c["traffic_sign_detected"] = 1) <=> Detected(v, "traffic_signs")
       /\ \A k \in {"face_detected", "color_detected", "qr_detected", "gesture_detected",
                     "traffic_sign_detected", "voice_detected", "has_obstacle",
                     "is_moving"} : c[k] \in {0, 1}
       /\ ~Detected(v, "colors") => c["color_size"] = 0
       /\ (Detected(v, "colors") /\ DOMAIN v["colors"][1] = {"width", "height"}) =>
             c["color_size"] = v["colors"][1]["width"] * v["colors"][1]["height"]
       /\ (c["voice_detected"] = 1) <=> decide_call.inputs.audio_data \notin {NoAudio, ""}
       /\ (c["has_obstacle"] = 1) <=> (0 < distance /\ distance < obstacle_distance_threshold)
       /\ (c["is_moving"] = 1) <=> ("speed" \in DOMAIN robot_state /\ robot_state["speed"] > 0)

\* C33 witness: a call with two colour regions, the first the smaller, no
\* face, an empty transcription, a distance below the threshold and a moving
\* robot.
C33_Witness ==
  /\ decide_call.made
  /\ Detected(decide_call.inputs.vision_data, "colors")
  /\ decide_call.inputs.vision_data["colors"] = <<Region(5, 10), Region(20, 10)>>
  /\ decide_call.inputs.vision_data["faces"] = <<>>
  /\ decide_call.inputs.audio_data = ""
  /\ decide_call.context["color_size"] = 50
  /\ decide_call.context["has_obstacle"] = 1
  /\ decide_call.context["is_moving"] = 1
  /\ decide_call.context["voice_detected"] = 0

\* C38: a _decide call that returns the actions of avoid_obstacle was made
\* on a context with has_obstacle true, a distance strictly between 0 and
\* the threshold; a distance of 0 does not bring the avoidance about.
C38_AvoidanceOnlyWithObstacle ==
  (decide_call.made /\ decide_call.actions = <<"stop", "turn_random", "move_forward">>) =>
     /\ decide_call.context["has_obstacle"] = 1
     /\ decide_call.inputs.distance # 0

C39_WitnessExplore ==
  /\ decide_call.made
  /\ stimulus_at # NoTime
  /\ decide_call.context["idle_time"] = 11
  /\ decide_call.actions = <<"scan_environment", "move_forward", "turn_random">>

\* C34: explain_decision agrees with evaluate on the same rule list and
\* context: it names a rule exactly when an enabled rule fully matches, the
\* rule named is such a rule and evaluate returned its action list; it
\* returns the no-rule text exactly when no enabled rule fully matches, and
\* evaluate returned the empty list then; the call leaves the rule list as
\* it was.
C34_ExplainAgreesWithEvaluate ==
  [][explained'.made =>
        /\ rules' = rules
        /\ explained'.explanation.matched <=> Candidates(rules, eval_ctx) # {}
        /\ explained'.explanation.matched =>
              /\ \E i \in Candidates(rules, eval_ctx) :
                    explained'.explanation = RuleExplanation(rules[i])
              /\ eval_result = explained'.explanation.actions
        /\ ~explained'.explanation.matched => eval_result = <<>>
    ]_vars

\* C34 witness: with a disabled rule in front of an enabled one, both
\* matching, explain_decision named the enabled one.
C34_Witness ==
  /\ explained.made
  /\ explained.explanation.matched
  /\ Len(rules) = 2
  /\ ~rules[1].enabled
  /\ FullyMatches(rules[1], eval_ctx)
  /\ explained.explanation.name = rules[2].name
  /\ rules[1].actions # rules[2].actions

\* explain_decision returned the no-rule text although the list has rules.
C34_WitnessNone ==
  /\ explained.made
  /\ ~explained.explanation.matched
  /\ Len(rules) = 2
  /\ eval_result = <<>>

\* start() has returned: after a failed initialize() or after the finally
\* clause that follows the loop
StartReturned == pc = "idle" /\ start_result # ""

\* C36: whenever start() has returned, is_running is false and an
\* initialized actuator is in state STOPPED with speed 0, whatever the
\* in-flight cycle did after an external stop().
C36_StoppedWhenStartReturns ==
  StartReturned =>
    /\ ~is_running
    /\ robot.is_initialized =>
          /\ robot.current_state = "stopped"
          /\ robot.current_speed = 0
          /\ robot.movement_start_time = NoTime

\* C36 witness: start() has returned from a loop that completed a cycle,
\* with the actuator initialized.
C36_Witness ==
  /\ StartReturned
  /\ ~init_failed
  /\ stop_called
  /\ robot.is_initialized
  /\ loop_count >= 1

\* The loop is about to leave after a stop() from outside, and an action
\* dispatched after that stop() has set the robot moving again.
C36_WitnessMovedAfterStop ==
  /\ pc = "finally"
  /\ ~exiting
  /\ stop_called
  /\ robot.is_initialized
  /\ robot.current_speed > 0

\* start() has returned after initialize() failed on the vision sensor, the
\* actuator being initialized.
C36_WitnessInitFailure ==
  /\ StartReturned
  /\ init_failed
  /\ robot.is_initialized

\* current_state, current_speed and movement_start_time of a controller
Movement(r) == <<r.current_state, r.current_speed, r.movement_start_time>>

\* C40: after every call on an initialized RobotController,
\* movement_start_time is set exactly when current_speed > 0 and the state
\* STOPPED comes with speed 0; a call on an uninitialized controller that
\* leaves it uninitialized (a movement command, a stop, a safety check)
\* leaves state, speed and movement_start_time unchanged.
C40_MovementBookkeeping ==
  [][/\ robot'.is_initialized =>
          /\ (robot'.movement_start_time # NoTime) <=> (robot'.current_speed > 0)
          /\ robot'.current_state = "stopped" => robot'.current_speed = 0
     /\ (~robot.is_initialized /\ ~robot'.is_initialized) =>
          Movement(robot') = Movement(robot)
    ]_vars

\* C40 witness: an initialized controller that was set moving and then
\* turned: the state is a turn, the speed and the start of the movement are
\* still those of the move, and the clock has advanced since.
C40_Witness ==
  /\ robot.is_initialized
  /\ robot.current_state \in {"turning_left", "turning_right"}
  /\ robot.current_speed = slow_speed
  /\ robot.movement_start_time # NoTime
  /\ robot.movement_start_time < now

\* An initialized controller stopped by the watchdog of check_safety.
C40_WitnessStopped ==
  /\ robot.is_initialized
  /\ safety_verdict = "unsafe"
  /\ robot.current_state = "stopped"
  /\ robot.current_speed = 0
  /\ robot.movement_start_time = NoTime
  /\ now > 0

\* C37: each transcription the listener publishes is perceived, and so
\* reported as voice_detected and handed to the voice command, by at most
\* one cycle.
C37_TranscriptionActedOnOnce == voice_log.perceived <= 1

\* stop() ran while start() had not returned
StopRequested == stop_called /\ pc \notin {"idle", "exited"}

\* a phase of the in-flight cycle does not terminate: the thread of the loop
\* has no next statement it can run
PhaseHangs == ~ENABLED LoopThread

====
